---- MODULE Spec2Model ----
(***************************************************************************)
(* Cartographer: the Runnable reconciler (package runnable) driven by the  *)
(* controller runtime, with the repository, the condition manager, the     *)
(* client builder, the realizer and the dynamic tracker as collaborators.  *)
(***************************************************************************)
EXTENDS Integers, Sequences, FiniteSets, Bags, TLC

\* ------------------------------------------------------------------ bounds
\* highest metadata.generation a Runnable reaches (spec edits are capped)
MaxGeneration == 2

\* largest number of resources of a ClusterSupplyChain
MaxResources == 2

\* largest number of calls of the methods of one template model
MaxModelCalls == 3

\* largest number of subjects of a RoleBinding
MaxSubjects == 2

\* Runnable keys (namespace/name) the work queue can hand to Reconcile
RunnableKeys == {1, 2}

\* ------------------------------------------------------------------ state
VARIABLES
    runnables,        \* keys of the Runnables that were created in the cluster
    api,              \* api[k]: the Runnable as persisted by the API server
    cache,            \* cache[k]: the Runnable as the informer cache holds it
    pc,               \* pc[k]: position of the reconcile of key k
    runnable,         \* runnable[k]: local *v1alpha1.Runnable of the reconcile
    conditionManager, \* Reconciler.conditionManager: which manager the field points to
    managers,         \* managers[k]: the condition manager built by the reconcile of k
    stampedObject,    \* stampedObject[k]: local returned by Realize ("nil" or an object)
    outputs,          \* outputs[k]: local returned by Realize
    realizeErr,       \* realizeErr[k]: the error Realize returned (typedErr)
    err,              \* err[k]: local err
    changed,          \* changed[k]: second result of Finalize
    calls,            \* calls[k]: collaborator calls made by the reconcile, in order
    persisted,        \* persisted[k]: the observedGeneration persisted when StatusUpdate was called
    result,           \* result[k]: error returned to the runtime (when pc[k] = "done")
    ctxCancelled,     \* ctxCancelled[k]: the context of the reconcile of k was cancelled
    cluster,          \* the objects the mapper's client lists and gets
    mapping,          \* the last call of a mapper function: input, failures, result
    templating,       \* an image template model, its GetOutput and the error built from it
    lastReconcile     \* lastReconcile[k]: what the reconcile of k that ended last did

vars == <<runnables, api, cache, pc, runnable, conditionManager, managers,
          stampedObject, outputs, realizeErr, err, changed, calls, persisted, result,
          ctxCancelled, cluster, mapping, templating, lastReconcile>>

\* the state of the mapper (package registrar)
mapperVars == <<cluster, mapping>>

\* ------------------------------------------------------------- errors
\* error values: kind of the error, cause of an ApplyStampedObjectError
\* (typedErr.Err), and whether it is wrapped by controller.NewUnhandledError
NoError == [kind |-> "nil", cause |-> "none", unhandled |-> FALSE]

PlainError(kind) == [kind |-> kind, cause |-> "none", unhandled |-> FALSE]

NewUnhandledError(e) == [e EXCEPT !.unhandled = TRUE]

IsUnhandledError(e) == e.unhandled

\* kerrors.IsForbidden(typedErr.Err)
IsForbidden(e) == e.cause = "Forbidden"

\* the errors Realize can return: the typed errors of the realizer and any
\* other error (the default case of the type switch)
RealizeErrors ==
    { PlainError(k) : k \in {"GetRunTemplateError", "ResolveSelectorError", "StampError",
                             "ListCreatedObjectsError", "RetrieveOutputError", "OtherError"} }
    \cup { [kind |-> "ApplyStampedObjectError", cause |-> c, unhandled |-> FALSE]
             : c \in {"Forbidden", "Other"} }

\* ------------------------------------------------------------- conditions
Condition(type, status, reason) == [type |-> type, status |-> status, reason |-> reason]

RunTemplateReadyCondition == Condition("RunTemplateReady", "True", "Ready")
RunTemplateMissingCondition == Condition("RunTemplateReady", "False", "RunTemplateMissing")
TemplateStampFailureCondition == Condition("RunTemplateReady", "False", "TemplateStampFailure")
StampedObjectRejectedByAPIServerCondition ==
    Condition("RunTemplateReady", "False", "StampedObjectRejectedByAPIServer")
FailedToListCreatedObjectsCondition ==
    Condition("RunTemplateReady", "False", "FailedToListCreatedObjects")
OutputPathNotSatisfiedCondition ==
    Condition("RunTemplateReady", "False", "OutputPathNotSatisfied")
UnknownErrorCondition == Condition("RunTemplateReady", "False", "UnknownError")
ServiceAccountSecretNotFoundCondition ==
    Condition("RunTemplateReady", "False", "ServiceAccountSecretNotFound")
ClientBuilderErrorCondition == Condition("RunTemplateReady", "False", "ClientBuilderError")

\* condition types in sort order, and the sub-conditions Ready requires
ConditionTypes == <<"Ready", "RunTemplateReady">>
RequiredTypes == {"RunTemplateReady"}

\* ConditionManagerBuilder(v1alpha1.RunnableReady, previousConditions)
ConditionManagerBuilder(previous) == [previous |-> previous, conditions |-> <<>>]

\* AddPositive: append, last writer wins per type
AddPositive(cm, c) ==
    IF \E i \in DOMAIN cm.conditions : cm.conditions[i].type = c.type
    THEN [cm EXCEPT !.conditions =
            [i \in DOMAIN cm.conditions |->
                IF cm.conditions[i].type = c.type THEN c ELSE cm.conditions[i]]]
    ELSE [cm EXCEPT !.conditions = Append(cm.conditions, c)]

\* the conditions of one type, in the order they were added
OfType(conds, type) == SelectSeq(conds, LAMBDA c : c.type = type)

\* the top-level Ready condition derived from the sub-conditions
TopLevelCondition(conds) ==
    LET falses == SelectSeq(conds, LAMBDA c : c.status = "False")
    IN  IF \E t \in RequiredTypes : OfType(conds, t) = <<>>
        THEN Condition("Ready", "Unknown", "MissingSubCondition")
        ELSE IF falses = <<>>
        THEN Condition("Ready", "True", "Ready")
        ELSE Condition("Ready", "False", falses[1].reason)

\* sort by type (stable): the conditions of each type, type after type
RECURSIVE SortByType(_, _)
SortByType(conds, i) ==
    IF i > Len(ConditionTypes) THEN <<>>
    ELSE OfType(conds, ConditionTypes[i]) \o SortByType(conds, i + 1)

\* Finalize() -> (conditions, changed)
FinalizeConditions(cm) ==
    SortByType(Append(cm.conditions, TopLevelCondition(cm.conditions)), 1)

FinalizeChanged(cm) == FinalizeConditions(cm) # cm.previous

\* ------------------------------------------------------------- values
NilOutputs == "nil"
Outputs == {NilOutputs, "o1"}

NilObject == "nil"
StampedObjects == {NilObject, "obj"}

\* a Runnable nobody reconciled yet
NewRunnable == [exists |-> TRUE, generation |-> 1, observedGeneration |-> 0,
                conditions |-> <<>>, outputs |-> NilOutputs]

NoRunnable == [exists |-> FALSE, generation |-> 0, observedGeneration |-> 0,
               conditions |-> <<>>, outputs |-> NilOutputs]

\* no reconcile of the key has ended yet
NoPrevious == [valid |-> FALSE]

\* no template model was built
NoTemplating == [step |-> "none"]

\* ------------------------------------------------------------- Init
InitLocals ==
    /\ pc = [k \in RunnableKeys |-> "idle"]
    /\ runnable = [k \in RunnableKeys |-> NoRunnable]
    /\ conditionManager = 1
    /\ managers = [k \in RunnableKeys |-> ConditionManagerBuilder(<<>>)]
    /\ stampedObject = [k \in RunnableKeys |-> NilObject]
    /\ outputs = [k \in RunnableKeys |-> NilOutputs]
    /\ realizeErr = [k \in RunnableKeys |-> NoError]
    /\ err = [k \in RunnableKeys |-> NoError]
    /\ persisted = [k \in RunnableKeys |-> 0]
    /\ changed = [k \in RunnableKeys |-> FALSE]
    /\ calls = [k \in RunnableKeys |-> <<>>]
    /\ result = [k \in RunnableKeys |-> NoError]
    /\ ctxCancelled = [k \in RunnableKeys |-> FALSE]
    /\ lastReconcile = [k \in RunnableKeys |-> NoPrevious]

\* a Runnable an earlier run of the controller reconciled successfully
ReconciledRunnable ==
    [exists |-> TRUE, generation |-> 1, observedGeneration |-> 1,
     conditions |-> <<Condition("Ready", "True", "Ready"), RunTemplateReadyCondition>>,
     outputs |-> "o1"]

\* a cluster without objects of the kinds the mapper reads
EmptyCluster ==
    [workloads |-> <<>>, supplyChains |-> <<>>, roleBindings |-> <<>>,
     clusterRoleBindings |-> <<>>, runnables |-> <<>>,
     deliverables |-> <<>>, deliveries |-> <<>>]

\* no mapper function was called yet
NoMapping ==
    [fn |-> "none", object |-> [kind |-> "none"], fail |-> {},
     requests |-> EmptyBag, logged |-> FALSE]

\* the mapper is not exercised
InitMapperIdle ==
    /\ cluster = EmptyCluster
    /\ mapping = NoMapping
    /\ templating = NoTemplating

\* one Runnable, reconciled by the single worker of the Runnable controller
Init ==
    /\ runnables = {1}
    /\ \E r \in {NewRunnable, ReconciledRunnable} :
          api = [k \in RunnableKeys |-> IF k = 1 THEN r ELSE NoRunnable]
    /\ cache = api
    /\ InitLocals
    /\ InitMapperIdle

\* ------------------------------------------------------------- environment
\* a user edits the spec: the API server bumps metadata.generation
UpdateSpec(k) ==
    /\ k \in runnables
    /\ api[k].exists
    /\ api[k].generation < MaxGeneration
    /\ api' = [api EXCEPT ![k].generation = @ + 1]
    /\ UNCHANGED <<templating, lastReconcile, mapperVars, ctxCancelled, runnables, cache, pc, runnable, conditionManager, managers,
                   stampedObject, outputs, realizeErr, err, changed, calls, persisted, result>>

\* a user deletes the Runnable
DeleteRunnable(k) ==
    /\ k \in runnables
    /\ api[k].exists
    /\ api' = [api EXCEPT ![k] = NoRunnable]
    /\ UNCHANGED <<templating, lastReconcile, mapperVars, ctxCancelled, runnables, cache, pc, runnable, conditionManager, managers,
                   stampedObject, outputs, realizeErr, err, changed, calls, persisted, result>>

\* the informer delivers the latest version of the object to the cache
CacheSync(k) ==
    /\ k \in runnables
    /\ cache[k] # api[k]
    /\ cache' = [cache EXCEPT ![k] = api[k]]
    /\ UNCHANGED <<templating, lastReconcile, mapperVars, ctxCancelled, runnables, api, pc, runnable, conditionManager, managers,
                   stampedObject, outputs, realizeErr, err, changed, calls, persisted, result>>

\* ------------------------------------------------------------- Reconcile
\* GetRunnable without the return of line 67: a Runnable that no longer
\* exists is reconciled
GetRunnable_NilFallsThrough(k) ==
    /\ k \in runnables
    /\ pc[k] = "idle"
    /\ calls' = [calls EXCEPT ![k] = <<"GetRunnable">>]
    /\ \/ /\ result' = [result EXCEPT ![k] = PlainError("GetRunnableError")]
          /\ pc' = [pc EXCEPT ![k] = "done"]
          /\ UNCHANGED <<runnable, conditionManager, managers>>
       \/ /\ runnable' = [runnable EXCEPT ![k] = cache[k]]
          /\ managers' = [managers EXCEPT ![k] = ConditionManagerBuilder(cache[k].conditions)]
          /\ conditionManager' = k
          /\ pc' = [pc EXCEPT ![k] = "GetServiceAccountSecret"]
          /\ UNCHANGED result
    /\ UNCHANGED <<templating, lastReconcile, mapperVars, ctxCancelled, runnables, api, cache, stampedObject, outputs, realizeErr, err, changed,
                   persisted>>

\* lines 59-70: GetRunnable, the two early returns, the condition manager
GetRunnable(k) ==
    /\ k \in runnables
    /\ pc[k] = "idle"
    /\ calls' = [calls EXCEPT ![k] = <<"GetRunnable">>]
    /\ \/ \* GetRunnable fails
          /\ result' = [result EXCEPT ![k] = PlainError("GetRunnableError")]
          /\ pc' = [pc EXCEPT ![k] = "done"]
          /\ UNCHANGED <<runnable, conditionManager, managers>>
       \/ \* runnable == nil
          /\ ~cache[k].exists
          /\ result' = [result EXCEPT ![k] = NoError]
          /\ pc' = [pc EXCEPT ![k] = "done"]
          /\ UNCHANGED <<runnable, conditionManager, managers>>
       \/ /\ cache[k].exists
          /\ runnable' = [runnable EXCEPT ![k] = cache[k]]
          /\ managers' = [managers EXCEPT ![k] = ConditionManagerBuilder(cache[k].conditions)]
          /\ conditionManager' = k
          /\ pc' = [pc EXCEPT ![k] = "GetServiceAccountSecret"]
          /\ UNCHANGED result
    /\ UNCHANGED <<templating, lastReconcile, mapperVars, ctxCancelled, runnables, api, cache, stampedObject, outputs, realizeErr, err, changed,
                   persisted>>

\* r.conditionManager.AddPositive(c): acts on the manager the field points to
ManagersAfterAdd(c) ==
    [managers EXCEPT ![conditionManager] = AddPositive(@, c)]

\* GetServiceAccountSecret without the return of line 80: falls through to the
\* client builder
GetServiceAccountSecret_FallThrough(k) ==
    /\ pc[k] = "GetServiceAccountSecret"
    /\ calls' = [calls EXCEPT ![k] = Append(@, "GetServiceAccountSecret")]
    /\ \/ /\ ~ctxCancelled[k]
          /\ UNCHANGED <<managers, err>>
       \/ /\ managers' = ManagersAfterAdd(ServiceAccountSecretNotFoundCondition)
          /\ err' = [err EXCEPT ![k] = PlainError("ServiceAccountSecretError")]
    /\ pc' = [pc EXCEPT ![k] = "ClientBuilder"]
    /\ UNCHANGED <<templating, lastReconcile, mapperVars, ctxCancelled, runnables, api, cache, runnable, conditionManager,
                   stampedObject, outputs, realizeErr, changed, persisted, result>>

\* lines 72-81
GetServiceAccountSecret(k) ==
    /\ pc[k] = "GetServiceAccountSecret"
    /\ calls' = [calls EXCEPT ![k] = Append(@, "GetServiceAccountSecret")]
    /\ \/ \* the call takes ctx: it succeeds only while ctx is live
          /\ ~ctxCancelled[k]
          /\ pc' = [pc EXCEPT ![k] = "ClientBuilder"]
          /\ UNCHANGED <<managers, err>>
       \/ /\ managers' = ManagersAfterAdd(ServiceAccountSecretNotFoundCondition)
          /\ err' = [err EXCEPT ![k] = PlainError("ServiceAccountSecretError")]
          /\ pc' = [pc EXCEPT ![k] = "completeReconciliation"]
    /\ UNCHANGED <<templating, lastReconcile, mapperVars, ctxCancelled, runnables, api, cache, runnable, conditionManager,
                   stampedObject, outputs, realizeErr, changed, persisted, result>>

\* ClientBuilder whose failure returns the error without completing the
\* reconciliation
ClientBuilder_ReturnsDirectly(k) ==
    /\ pc[k] = "ClientBuilder"
    /\ calls' = [calls EXCEPT ![k] = Append(@, "ClientBuilder")]
    /\ \/ /\ pc' = [pc EXCEPT ![k] = "Realize"]
          /\ UNCHANGED <<managers, err, result>>
       \/ /\ managers' = ManagersAfterAdd(ClientBuilderErrorCondition)
          /\ err' = [err EXCEPT ![k] = NewUnhandledError(PlainError("ClientBuilderError"))]
          /\ result' = [result EXCEPT ![k] = NewUnhandledError(PlainError("ClientBuilderError"))]
          /\ pc' = [pc EXCEPT ![k] = "done"]
    /\ UNCHANGED <<templating, lastReconcile, mapperVars, ctxCancelled, runnables, api, cache, runnable, conditionManager,
                   stampedObject, outputs, realizeErr, changed, persisted>>

\* ClientBuilder whose error is not wrapped by NewUnhandledError
ClientBuilder_Handled(k) ==
    /\ pc[k] = "ClientBuilder"
    /\ calls' = [calls EXCEPT ![k] = Append(@, "ClientBuilder")]
    /\ \/ /\ pc' = [pc EXCEPT ![k] = "Realize"]
          /\ UNCHANGED <<managers, err>>
       \/ /\ managers' = ManagersAfterAdd(ClientBuilderErrorCondition)
          /\ err' = [err EXCEPT ![k] = PlainError("ClientBuilderError")]
          /\ pc' = [pc EXCEPT ![k] = "completeReconciliation"]
    /\ UNCHANGED <<templating, lastReconcile, mapperVars, ctxCancelled, runnables, api, cache, runnable, conditionManager,
                   stampedObject, outputs, realizeErr, changed, persisted, result>>

\* lines 83-87
ClientBuilder(k) ==
    /\ pc[k] = "ClientBuilder"
    /\ calls' = [calls EXCEPT ![k] = Append(@, "ClientBuilder")]
    /\ \/ /\ pc' = [pc EXCEPT ![k] = "Realize"]
          /\ UNCHANGED <<managers, err>>
       \/ /\ managers' = ManagersAfterAdd(ClientBuilderErrorCondition)
          /\ err' = [err EXCEPT ![k] = NewUnhandledError(PlainError("ClientBuilderError"))]
          /\ pc' = [pc EXCEPT ![k] = "completeReconciliation"]
    /\ UNCHANGED <<templating, lastReconcile, mapperVars, ctxCancelled, runnables, api, cache, runnable, conditionManager,
                   stampedObject, outputs, realizeErr, changed, persisted, result>>

\* lines 92-113: the condition the type switch records for a Realize error
RealizeErrorCondition(e) ==
    CASE e.kind = "GetRunTemplateError" -> RunTemplateMissingCondition
      [] e.kind = "ResolveSelectorError" -> TemplateStampFailureCondition
      [] e.kind = "StampError" -> TemplateStampFailureCondition
      [] e.kind = "ApplyStampedObjectError" -> StampedObjectRejectedByAPIServerCondition
      [] e.kind = "ListCreatedObjectsError" -> FailedToListCreatedObjectsCondition
      [] e.kind = "RetrieveOutputError" -> OutputPathNotSatisfiedCondition
      [] OTHER -> UnknownErrorCondition

\* the type switch with one case changed: variants used to test the properties
ClassifiedExcept(e, kind, f) ==
    IF e.kind = kind THEN f
    ELSE CASE e.kind = "GetRunTemplateError" -> NewUnhandledError(e)
           [] e.kind = "ResolveSelectorError" -> e
           [] e.kind = "StampError" -> e
           [] e.kind = "ApplyStampedObjectError" ->
                 IF ~IsForbidden(e) THEN NewUnhandledError(e) ELSE e
           [] e.kind = "ListCreatedObjectsError" -> NewUnhandledError(e)
           [] e.kind = "RetrieveOutputError" -> e
           [] OTHER -> NewUnhandledError(e)

\* every ApplyStampedObjectError is unhandled (the Forbidden test is lost)
Classified_ApplyAlwaysUnhandled(e) ==
    ClassifiedExcept(e, "ApplyStampedObjectError", NewUnhandledError(e))

\* the Forbidden test is inverted
Classified_ApplyInverted(e) ==
    ClassifiedExcept(e, "ApplyStampedObjectError",
                     IF IsForbidden(e) THEN NewUnhandledError(e) ELSE e)

\* GetRunTemplateError is left handled
Classified_GetRunTemplateHandled(e) == ClassifiedExcept(e, "GetRunTemplateError", e)

\* RetrieveOutputError is wrapped as unhandled
Classified_RetrieveOutputUnhandled(e) ==
    ClassifiedExcept(e, "RetrieveOutputError", NewUnhandledError(e))

\* StampError is wrapped as unhandled
Classified_StampUnhandled(e) == ClassifiedExcept(e, "StampError", NewUnhandledError(e))

\* ListCreatedObjectsError is left handled
Classified_ListHandled(e) == ClassifiedExcept(e, "ListCreatedObjectsError", e)

\* the default case does not wrap the error
Classified_DefaultHandled(e) == ClassifiedExcept(e, "OtherError", e)

\* lines 92-113: err after the type switch
RealizeErrorClassified(e) ==
    CASE e.kind = "GetRunTemplateError" -> NewUnhandledError(e)
      [] e.kind = "ResolveSelectorError" -> e
      [] e.kind = "StampError" -> e
      [] e.kind = "ApplyStampedObjectError" ->
            IF ~IsForbidden(e) THEN NewUnhandledError(e) ELSE e
      [] e.kind = "ListCreatedObjectsError" -> NewUnhandledError(e)
      [] e.kind = "RetrieveOutputError" -> e
      [] OTHER -> NewUnhandledError(e)

\* lines 89-117: Realize and the classification of its error
Realize(k) ==
    /\ pc[k] = "Realize"
    /\ calls' = [calls EXCEPT ![k] = Append(@, "Realize")]
    /\ \E so \in StampedObjects, out \in Outputs :
          /\ stampedObject' = [stampedObject EXCEPT ![k] = so]
          /\ outputs' = [outputs EXCEPT ![k] = out]
    /\ \/ \E e \in RealizeErrors :
             /\ managers' = ManagersAfterAdd(RealizeErrorCondition(e))
             /\ realizeErr' = [realizeErr EXCEPT ![k] = e]
             /\ err' = [err EXCEPT ![k] = RealizeErrorClassified(e)]
       \/ \* Realize takes ctx: it succeeds only while ctx is live
          /\ ~ctxCancelled[k]
          /\ managers' = ManagersAfterAdd(RunTemplateReadyCondition)
          /\ UNCHANGED <<realizeErr, err>>
    /\ pc' = [pc EXCEPT ![k] = "Watch"]
    /\ UNCHANGED <<templating, lastReconcile, mapperVars, ctxCancelled, runnables, api, cache, runnable, conditionManager, changed,
                   persisted, result>>

\* lines 119-128 reached only when Realize returned no error
Watch_OnlyOnSuccess(k) ==
    /\ pc[k] = "Watch"
    /\ \/ /\ (stampedObject[k] = NilObject \/ realizeErr[k] # NoError)
          /\ UNCHANGED <<calls, err>>
       \/ /\ stampedObject[k] # NilObject
          /\ realizeErr[k] = NoError
          /\ calls' = [calls EXCEPT ![k] = Append(@, "Watch")]
          /\ \/ UNCHANGED err
             \/ err' = [err EXCEPT ![k] = NewUnhandledError(PlainError("TrackingError"))]
    /\ pc' = [pc EXCEPT ![k] = "completeReconciliation"]
    /\ UNCHANGED <<templating, lastReconcile, mapperVars, ctxCancelled, runnables, api, cache, runnable,
                   conditionManager, managers, stampedObject, outputs, realizeErr,
                   changed, persisted, result>>

\* lines 119-128 lost: no stamped object is registered
Watch_Never(k) ==
    /\ pc[k] = "Watch"
    /\ pc' = [pc EXCEPT ![k] = "completeReconciliation"]
    /\ UNCHANGED <<templating, lastReconcile, mapperVars, ctxCancelled, runnables, api, cache, runnable,
                   conditionManager, managers, stampedObject, outputs, realizeErr,
                   changed, persisted, result, calls, err>>

\* lines 119-128 with a condition added for the tracking failure
Watch_AddsCondition(k) ==
    /\ pc[k] = "Watch"
    /\ \/ /\ stampedObject[k] = NilObject
          /\ UNCHANGED <<calls, err, managers>>
       \/ /\ stampedObject[k] # NilObject
          /\ calls' = [calls EXCEPT ![k] = Append(@, "Watch")]
          /\ \/ UNCHANGED <<err, managers>>
             \/ /\ err' = [err EXCEPT ![k] = NewUnhandledError(PlainError("TrackingError"))]
                /\ managers' = ManagersAfterAdd(UnknownErrorCondition)
    /\ pc' = [pc EXCEPT ![k] = "completeReconciliation"]
    /\ UNCHANGED <<templating, lastReconcile, mapperVars, ctxCancelled, runnables, api, cache, runnable,
                   conditionManager, stampedObject, outputs, realizeErr, changed,
                   persisted, result>>

\* lines 119-128: register the stamped object with the dynamic tracker
Watch(k) ==
    /\ pc[k] = "Watch"
    /\ \/ /\ stampedObject[k] = NilObject
          /\ UNCHANGED <<calls, err>>
       \/ /\ stampedObject[k] # NilObject
          /\ calls' = [calls EXCEPT ![k] = Append(@, "Watch")]
          /\ \/ UNCHANGED err
             \/ err' = [err EXCEPT ![k] = NewUnhandledError(PlainError("TrackingError"))]
    /\ pc' = [pc EXCEPT ![k] = "completeReconciliation"]
    /\ UNCHANGED <<templating, lastReconcile, mapperVars, ctxCancelled, runnables, api, cache, runnable, conditionManager, managers,
                   stampedObject, outputs, realizeErr, changed, persisted, result>>

\* line 138 lost: the status is written by every reconcile
NeedsStatusUpdate_Always(ch, r, out) == TRUE

\* line 138 without the comparison of the outputs
NeedsStatusUpdate_NoOutputs(ch, r, out) ==
    ch \/ (r.observedGeneration # r.generation)

\* line 138: the condition under which the status is written
NeedsStatusUpdate(ch, r, out) ==
    ch \/ (r.observedGeneration # r.generation) \/ ~(r.outputs = out)

\* line 139 lost: the status keeps the outputs that were read
StatusOutputsFor_Kept(r, out) == r.outputs

\* line 139: the outputs written for the Runnable that was read
StatusOutputsFor(r, out) == out

\* line 140 lost: the status is written with the zero value
ObservedGenerationFor_Zero(r) == 0

\* line 140: the observedGeneration written for the Runnable that was read
ObservedGenerationFor(r) == r.generation

\* lines 147-155: what Reconcile returns once the status is settled
ReturnedError(e) ==
    IF e # NoError /\ IsUnhandledError(e) THEN e ELSE NoError

\* lines 141-144 lost: a failed StatusUpdate is ignored
StatusUpdateFailure_Ignored(e) == ReturnedError(e)

\* lines 141-144: what Reconcile returns when StatusUpdate failed, whatever
\* err it was given
StatusUpdateFailure(e) == PlainError("StatusUpdateError")

\* lines 133-156
CompleteReconciliation(k) ==
    LET cm == managers[conditionManager]
        finalized == [runnable[k] EXCEPT !.conditions = FinalizeConditions(cm)]
        written == [finalized EXCEPT !.outputs = StatusOutputsFor(runnable[k], outputs[k]),
                                     !.observedGeneration = ObservedGenerationFor(runnable[k])]
    IN
    /\ pc[k] = "completeReconciliation"
    /\ changed' = [changed EXCEPT ![k] = FinalizeChanged(cm)]
    /\ persisted' = [persisted EXCEPT ![k] = api[k].observedGeneration]
    /\ IF NeedsStatusUpdate(FinalizeChanged(cm), finalized, outputs[k])
       THEN /\ calls' = [calls EXCEPT ![k] = @ \o <<"Finalize", "StatusUpdate">>]
            /\ runnable' = [runnable EXCEPT ![k] = written]
            /\ \/ \* StatusUpdate persists the status subresource (it takes ctx)
                  /\ ~ctxCancelled[k]
                  /\ api[k].exists
                  /\ api' = [api EXCEPT ![k].conditions = written.conditions,
                                        ![k].outputs = written.outputs,
                                        ![k].observedGeneration = written.observedGeneration]
                  /\ result' = [result EXCEPT ![k] = ReturnedError(err[k])]
               \/ \* StatusUpdate fails
                  /\ result' = [result EXCEPT ![k] = StatusUpdateFailure(err[k])]
                  /\ UNCHANGED api
       ELSE /\ calls' = [calls EXCEPT ![k] = Append(@, "Finalize")]
            /\ runnable' = [runnable EXCEPT ![k] = finalized]
            /\ result' = [result EXCEPT ![k] = ReturnedError(err[k])]
            /\ UNCHANGED api
    /\ pc' = [pc EXCEPT ![k] = "done"]
    /\ UNCHANGED <<templating, lastReconcile, mapperVars, ctxCancelled, runnables, cache, conditionManager, managers, stampedObject,
                   outputs, realizeErr, err>>

\* the runtime takes the result; the worker is free for the next request
DoneStep(k) ==
    /\ pc[k] = "done"
    /\ pc' = [pc EXCEPT ![k] = "idle"]
    /\ runnable' = [runnable EXCEPT ![k] = NoRunnable]
    /\ stampedObject' = [stampedObject EXCEPT ![k] = NilObject]
    /\ outputs' = [outputs EXCEPT ![k] = NilOutputs]
    /\ realizeErr' = [realizeErr EXCEPT ![k] = NoError]
    /\ err' = [err EXCEPT ![k] = NoError]
    /\ persisted' = [persisted EXCEPT ![k] = 0]
    /\ changed' = [changed EXCEPT ![k] = FALSE]
    /\ calls' = [calls EXCEPT ![k] = <<>>]
    /\ result' = [result EXCEPT ![k] = NoError]
    /\ ctxCancelled' = [ctxCancelled EXCEPT ![k] = FALSE]
    /\ UNCHANGED <<templating, mapperVars, runnables, api, cache, conditionManager, managers>>

Done(k) == DoneStep(k) /\ UNCHANGED lastReconcile

\* what a reconcile that reached completeReconciliation read, was given by its
\* collaborators, finalized and returned, and whether the Runnable the API
\* server holds when it returns is the Runnable it finalized
ReconcileRecord(k) ==
    [valid |-> TRUE,
     generation |-> runnable[k].generation,
     stampedObject |-> stampedObject[k],
     outputs |-> outputs[k],
     realizeErr |-> realizeErr[k],
     err |-> err[k],
     conditions |-> runnable[k].conditions,
     result |-> result[k],
     settled |-> runnable[k] = api[k]]

\* Done, with the reconcile that ends kept for the comparison with the one
\* that follows it; one pair of reconciles is followed
DoneRecorded(k) ==
    /\ ~lastReconcile[k].valid
    /\ DoneStep(k)
    /\ lastReconcile' = [lastReconcile EXCEPT ![k] =
            IF \E i \in DOMAIN calls[k] : calls[k][i] = "Finalize"
            THEN ReconcileRecord(k) ELSE NoPrevious]

\* the runtime cancels the context of a reconcile that is under way (shutdown,
\* lost leadership): nothing in Reconcile reads ctx.Done() or ctx.Err()
Cancel(k) ==
    /\ pc[k] \notin {"idle", "done"}
    /\ ~ctxCancelled[k]
    /\ ctxCancelled' = [ctxCancelled EXCEPT ![k] = TRUE]
    /\ UNCHANGED <<templating, lastReconcile, mapperVars, runnables, api, cache, pc, runnable, conditionManager,
                   managers, stampedObject, outputs, realizeErr, err, changed, calls,
                   persisted, result>>

Next ==
    \/ \E k \in RunnableKeys : UpdateSpec(k)
    \/ \E k \in RunnableKeys : DeleteRunnable(k)
    \/ \E k \in RunnableKeys : CacheSync(k)
    \/ \E k \in RunnableKeys : GetRunnable(k)
    \/ \E k \in RunnableKeys : GetServiceAccountSecret(k)
    \/ \E k \in RunnableKeys : ClientBuilder(k)
    \/ \E k \in RunnableKeys : Realize(k)
    \/ \E k \in RunnableKeys : Watch(k)
    \/ \E k \in RunnableKeys : CompleteReconciliation(k)
    \/ \E k \in RunnableKeys : Done(k)

Spec == Init /\ [][Next]_vars

\* a Runnable that was never reconciled, one that was reconciled, and one
\* whose last status write (outputs nil) may not have reached the cache yet
InitIdem ==
    /\ runnables = {1}
    /\ \E r \in {NewRunnable, ReconciledRunnable,
                  [ReconciledRunnable EXCEPT !.outputs = NilOutputs]} :
          /\ api = [k \in RunnableKeys |-> IF k = 1 THEN r ELSE NoRunnable]
          /\ \E c \in {r} \cup (IF r \in {NewRunnable, ReconciledRunnable} THEN {}
                                 ELSE {ReconciledRunnable}) :
                cache = [k \in RunnableKeys |-> IF k = 1 THEN c ELSE NoRunnable]
    /\ InitLocals
    /\ InitMapperIdle

\* the same controller while nobody edits the Runnable: a reconcile and the
\* one that follows it
NextIdem ==
    \/ \E k \in RunnableKeys : CacheSync(k)
    \/ \E k \in RunnableKeys : GetRunnable(k)
    \/ \E k \in RunnableKeys : GetServiceAccountSecret(k)
    \/ \E k \in RunnableKeys : ClientBuilder(k)
    \/ \E k \in RunnableKeys : Realize(k)
    \/ \E k \in RunnableKeys : Watch(k)
    \/ \E k \in RunnableKeys : CompleteReconciliation(k)
    \/ \E k \in RunnableKeys : DoneRecorded(k)

SpecIdem == InitIdem /\ [][NextIdem]_vars

\* the same controller when the runtime may cancel a reconcile's context
NextCancel ==
    \/ \E k \in RunnableKeys : Cancel(k)
    \/ \E k \in RunnableKeys : CacheSync(k)
    \/ \E k \in RunnableKeys : GetRunnable(k)
    \/ \E k \in RunnableKeys : GetServiceAccountSecret(k)
    \/ \E k \in RunnableKeys : ClientBuilder(k)
    \/ \E k \in RunnableKeys : Realize(k)
    \/ \E k \in RunnableKeys : Watch(k)
    \/ \E k \in RunnableKeys : CompleteReconciliation(k)
    \/ \E k \in RunnableKeys : Done(k)

SpecCancel == Init /\ [][NextCancel]_vars

\* two Runnables reconciled at the same time on one Reconciler value
InitConc ==
    /\ runnables = {1, 2}
    /\ api = [k \in RunnableKeys |-> NewRunnable]
    /\ cache = api
    /\ InitLocals
    /\ InitMapperIdle

NextConc ==
    \/ \E k \in RunnableKeys : GetRunnable(k)
    \/ \E k \in RunnableKeys : GetServiceAccountSecret(k)
    \/ \E k \in RunnableKeys : ClientBuilder(k)
    \/ \E k \in RunnableKeys : Realize(k)
    \/ \E k \in RunnableKeys : Watch(k)
    \/ \E k \in RunnableKeys : CompleteReconciliation(k)

SpecConc == InitConc /\ [][NextConc]_vars

\* ------------------------------------------------------------- mapper
\* Objects are records that carry their kind (the Go type of the client.Object):
\*   Workload            [kind, name, namespace, labels, serviceAccountName]
\*   ClusterSupplyChain  [kind, name, namespace, selector, resources,
\*                        serviceAccountRef]   (cluster-scoped: namespace "")
\*   Runnable            [kind, name, namespace, runTemplateRef, serviceAccountName]
\*   Deliverable         [kind, name, namespace, labels, serviceAccountName]
\*   ClusterDelivery     [kind, name, namespace, selector, resources,
\*                        serviceAccountRef]   (cluster-scoped: namespace "")
\*   RoleBinding         [kind, name, namespace, roleRef, subjects]
\*   ClusterRoleBinding  [kind, name, namespace, roleRef, subjects]
\*   ServiceAccount, Role, ClusterRole, templates   [kind, name, namespace]
\* Labels and selectors are sets of key=value pairs.  A call of a mapper
\* function comes with the set f of the call sites (function.call) whose client
\* call, or GVK lookup, fails during the call.
\* A request list is a bag: the order of the slice is not modelled, the number
\* of times a request occurs is.  Every function yields its request list and
\* whether mapper.Logger.Error was called.

\* the elements of a slice
Items(list) == {list[i] : i \in DOMAIN list}

\* reconcile.Request{NamespacedName{Name, Namespace}}
Request(o) == [name |-> o.name, namespace |-> o.namespace]

Result(reqs, logged) == [requests |-> reqs, logged |-> logged]

\* the requests for a slice of objects, one per element
RECURSIVE RequestsOf(_)
RequestsOf(objs) ==
    IF objs = <<>> THEN EmptyBag
    ELSE SetToBag({Request(Head(objs))}) (+) RequestsOf(Tail(objs))

\* append(requests, reqs...) over the results of a slice of calls
RECURSIVE Concat(_)
Concat(results) ==
    IF results = <<>> THEN Result(EmptyBag, FALSE)
    ELSE LET rest == Concat(Tail(results))
         IN Result(Head(results).requests (+) rest.requests,
                   Head(results).logged \/ rest.logged)

\* client.InNamespace: the empty namespace selects every namespace
InNamespace(ns, o) == ns = "" \/ o.namespace = ns

\* client.MatchingLabels: every pair of the selector is a label of the object
MatchingLabels(selector, o) == selector \subseteq o.labels

\* repository.BestLabelMatches: the selector getters that match the labels of
\* the object with the largest number of selector pairs, ties included
BestLabelMatches(wl, selectorGetters) ==
    LET Matching(sg) == sg.selector \subseteq wl.labels
        matching == SelectSeq(selectorGetters, Matching)
        Best(sg) == \A i \in DOMAIN matching :
                        Cardinality(matching[i].selector) <= Cardinality(sg.selector)
    IN SelectSeq(matching, Best)

\* clusterSupplyChainToWorkloads without the comparison with the best matches:
\* every Workload the selector of the chain matches
clusterSupplyChainToWorkloads_AllMatching(f, sc) ==
    IF f \cap {"clusterSupplyChainToWorkloads.addGVK",
                "clusterSupplyChainToWorkloads.ListSupplyChains",
                "clusterSupplyChainToWorkloads.ListWorkloads"} # {}
    THEN [workloads |-> <<>>, err |-> TRUE]
    ELSE LET Listed(wl) == InNamespace(sc.namespace, wl) /\ MatchingLabels(sc.selector, wl)
         IN [workloads |-> SelectSeq(cluster.workloads, Listed), err |-> FALSE]

\* lines 204-244.  The listed chains carry the GVK that addGVK sets on sc, and
\* the names of the chains are unique, so that reflect.DeepEqual holds for at
\* most one of the best matches of a Workload
clusterSupplyChainToWorkloads(f, sc) ==
    IF f \cap {"clusterSupplyChainToWorkloads.addGVK",
                "clusterSupplyChainToWorkloads.ListSupplyChains",
                "clusterSupplyChainToWorkloads.ListWorkloads"} # {}
    THEN [workloads |-> <<>>, err |-> TRUE]
    ELSE LET scList == cluster.supplyChains
             Listed(wl) == InNamespace(sc.namespace, wl) /\ MatchingLabels(sc.selector, wl)
             workloadList == SelectSeq(cluster.workloads, Listed)
             IsBest(wl) == LET best == BestLabelMatches(wl, scList)
                           IN \E i \in DOMAIN best : best[i] = sc
         IN [workloads |-> SelectSeq(workloadList, IsBest), err |-> FALSE]

\* lines 178-202
ClusterSupplyChainToWorkloadRequests(f, object) ==
    IF object.kind # "ClusterSupplyChain" THEN Result(EmptyBag, TRUE)
    ELSE LET r == clusterSupplyChainToWorkloads(f, object)
         IN IF r.err THEN Result(EmptyBag, TRUE)
            ELSE Result(RequestsOf(r.workloads), FALSE)

\* the concatenation of a slice of slices
RECURSIVE Flatten(_)
Flatten(ss) == IF ss = <<>> THEN <<>> ELSE Head(ss) \o Flatten(Tail(ss))

\* lines 168-173: the chain is appended once for every resource that refers to
\* the template
ChainsReferring(items, refs) ==
    Flatten([i \in DOMAIN items |->
                LET n == Cardinality({j \in DOMAIN items[i].resources :
                                         items[i].resources[j] \in refs})
                IN [j \in 1..n |-> items[i]]])

\* templateToSupplyChains comparing the name of the templateRef only
templateToSupplyChains_NameOnly(f, template) ==
    IF f \cap {"templateToSupplyChains.addGVK", "templateToSupplyChains.List"} # {}
    THEN [supplyChains |-> <<>>, logged |-> TRUE]
    ELSE LET refs == {ref \in UNION {Items(sc.resources) : sc \in Items(cluster.supplyChains)} :
                          ref.name = template.name}
         IN [supplyChains |-> ChainsReferring(cluster.supplyChains, refs),
             logged |-> FALSE]

\* lines 144-176
templateToSupplyChains(f, template) ==
    IF f \cap {"templateToSupplyChains.addGVK", "templateToSupplyChains.List"} # {}
    THEN [supplyChains |-> <<>>, logged |-> TRUE]
    ELSE LET refs == {[kind |-> template.kind, name |-> template.name]}
         IN [supplyChains |-> ChainsReferring(cluster.supplyChains, refs),
             logged |-> FALSE]

\* lines 132-142
TemplateToWorkloadRequests(f, template) ==
    LET scs == templateToSupplyChains(f, template)
        reqs == Concat([i \in DOMAIN scs.supplyChains |->
                           ClusterSupplyChainToWorkloadRequests(f, scs.supplyChains[i])])
    IN Result(reqs.requests, scs.logged \/ reqs.logged)

\* lines 496-513
serviceAccountToSupplyChains(f, serviceAccountObject) ==
    IF "serviceAccountToSupplyChains.List" \in f
    THEN [supplyChains |-> <<>>, logged |-> TRUE]
    ELSE LET Refers(sc) == sc.serviceAccountRef.name = serviceAccountObject.name
         IN [supplyChains |-> SelectSeq(cluster.supplyChains, Refers), logged |-> FALSE]

\* the rule of lines 472-473 without the namespace of the service account
RefNamespaceMatches_Any(sc, workload, serviceAccountObject) == TRUE

\* lines 472-473: the namespace rule of the serviceAccountRef of a chain
RefNamespaceMatches(sc, workload, serviceAccountObject) ==
    \/ sc.serviceAccountRef.namespace = serviceAccountObject.namespace
    \/ (sc.serviceAccountRef.namespace = ""
            /\ workload.namespace = serviceAccountObject.namespace)

\* lines 441-494: requestMap is a set of requests
ServiceAccountToWorkloadRequests(f, serviceAccountObject) ==
    IF "ServiceAccountToWorkloadRequests.List" \in f THEN Result(EmptyBag, TRUE)
    ELSE LET direct == {Request(w) : w \in {w \in Items(cluster.workloads) :
                            /\ w.namespace = serviceAccountObject.namespace
                            /\ w.serviceAccountName = serviceAccountObject.name}}
             scs == serviceAccountToSupplyChains(f, serviceAccountObject)
             supplyChains == scs.supplyChains
             scWorkloads == [i \in DOMAIN supplyChains |->
                                clusterSupplyChainToWorkloads(f, supplyChains[i])]
             Indirect(i) == {Request(w) : w \in {w \in Items(scWorkloads[i].workloads) :
                                /\ w.serviceAccountName = ""
                                /\ RefNamespaceMatches(supplyChains[i], w,
                                                       serviceAccountObject)}}
         IN IF \E i \in DOMAIN supplyChains : scWorkloads[i].err
            THEN Result(EmptyBag, TRUE)
            ELSE Result(SetToBag(direct \cup UNION {Indirect(i) : i \in DOMAIN supplyChains}),
                        scs.logged)

\* the zero value of corev1.ServiceAccount
EmptyServiceAccount == [kind |-> "ServiceAccount", name |-> "", namespace |-> ""]

\* lines 522, 547
IsServiceAccountSubject(subject) == subject.apiGroup = "" /\ subject.kind = "ServiceAccount"

\* what Client.Get leaves in serviceAccountObject
GetServiceAccount(failed, subject) ==
    IF failed THEN EmptyServiceAccount
    ELSE [kind |-> "ServiceAccount", name |-> subject.name, namespace |-> subject.namespace]

\* lines 515-538: the loop returns at the first ServiceAccount subject; a failed
\* Get is logged and the call goes on with the empty object
RoleBindingToWorkloadRequests(f, roleBindingObject) ==
    IF roleBindingObject.kind # "RoleBinding" THEN Result(EmptyBag, TRUE)
    ELSE LET subjects == SelectSeq(roleBindingObject.subjects, IsServiceAccountSubject)
             failed == "RoleBindingToWorkloadRequests.Get" \in f
         IN IF subjects = <<>> THEN Result(EmptyBag, FALSE)
            ELSE LET r == ServiceAccountToWorkloadRequests(f,
                              GetServiceAccount(failed, Head(subjects)))
                 IN Result(r.requests, failed \/ r.logged)

\* lines 540-564: the loop returns at the first ServiceAccount subject; a failed
\* Get returns the empty list
ClusterRoleBindingToWorkloadRequests(f, clusterRoleBindingObject) ==
    IF clusterRoleBindingObject.kind # "ClusterRoleBinding" THEN Result(EmptyBag, TRUE)
    ELSE LET subjects == SelectSeq(clusterRoleBindingObject.subjects,
                                   IsServiceAccountSubject)
         IN IF subjects = <<>> THEN Result(EmptyBag, FALSE)
            ELSE IF "ClusterRoleBindingToWorkloadRequests.Get" \in f
            THEN Result(EmptyBag, TRUE)
            ELSE ServiceAccountToWorkloadRequests(f,
                     GetServiceAccount(FALSE, Head(subjects)))

\* lines 566-589
RoleToWorkloadRequests(f, roleObject) ==
    IF roleObject.kind # "Role" THEN Result(EmptyBag, TRUE)
    ELSE IF "RoleToWorkloadRequests.List" \in f THEN Result(EmptyBag, TRUE)
    ELSE LET Bound(roleBinding) ==
                 /\ roleBinding.roleRef.apiGroup = ""
                 /\ roleBinding.roleRef.kind = "Role"
                 /\ roleBinding.roleRef.name = roleObject.name
                 /\ roleBinding.namespace = roleObject.namespace
             bound == SelectSeq(cluster.roleBindings, Bound)
         IN Concat([i \in DOMAIN bound |-> RoleBindingToWorkloadRequests(f, bound[i])])

\* lines 591-629
ClusterRoleToWorkloadRequests(f, clusterRoleObject) ==
    IF clusterRoleObject.kind # "ClusterRole" THEN Result(EmptyBag, TRUE)
    ELSE IF "ClusterRoleToWorkloadRequests.ListClusterRoleBindings" \in f
    THEN Result(EmptyBag, TRUE)
    ELSE IF "ClusterRoleToWorkloadRequests.ListRoleBindings" \in f
    THEN Result(EmptyBag, TRUE)
    ELSE LET Bound(binding) ==
                 /\ binding.roleRef.apiGroup = ""
                 /\ binding.roleRef.kind = "ClusterRole"
                 /\ binding.roleRef.name = clusterRoleObject.name
             crbs == SelectSeq(cluster.clusterRoleBindings, Bound)
             rbs == SelectSeq(cluster.roleBindings, Bound)
         IN Concat([i \in DOMAIN crbs |->
                       ClusterRoleBindingToWorkloadRequests(f, crbs[i])]
                   \o [i \in DOMAIN rbs |-> RoleBindingToWorkloadRequests(f, rbs[i])])

\* lines 274-314: the Deliverables the delivery selects and of which it is a
\* best label match
clusterDeliveryToDeliverables(f, d) ==
    IF f \cap {"clusterDeliveryToDeliverables.addGVK",
                "clusterDeliveryToDeliverables.ListDeliveries",
                "clusterDeliveryToDeliverables.ListDeliverables"} # {}
    THEN [deliverables |-> <<>>, err |-> TRUE]
    ELSE LET deliveryList == cluster.deliveries
             Listed(dl) == InNamespace(d.namespace, dl) /\ MatchingLabels(d.selector, dl)
             deliverableList == SelectSeq(cluster.deliverables, Listed)
             IsBest(dl) == LET best == BestLabelMatches(dl, deliveryList)
                           IN \E i \in DOMAIN best : best[i] = d
         IN [deliverables |-> SelectSeq(deliverableList, IsBest), err |-> FALSE]

\* lines 246-272
ClusterDeliveryToDeliverableRequests(f, object) ==
    IF object.kind # "ClusterDelivery" THEN Result(EmptyBag, TRUE)
    ELSE LET r == clusterDeliveryToDeliverables(f, object)
         IN IF r.err THEN Result(EmptyBag, TRUE)
            ELSE Result(RequestsOf(r.deliverables), FALSE)

\* lines 399-431: the delivery is appended once for every resource that refers
\* to the template
templateToDeliveries(f, template) ==
    IF f \cap {"templateToDeliveries.addGVK", "templateToDeliveries.List"} # {}
    THEN [deliveries |-> <<>>, logged |-> TRUE]
    ELSE LET refs == {[kind |-> template.kind, name |-> template.name]}
         IN [deliveries |-> ChainsReferring(cluster.deliveries, refs),
             logged |-> FALSE]

\* lines 120-130
TemplateToDeliverableRequests(f, template) ==
    LET ds == templateToDeliveries(f, template)
        reqs == Concat([i \in DOMAIN ds.deliveries |->
                           ClusterDeliveryToDeliverableRequests(f, ds.deliveries[i])])
    IN Result(reqs.requests, ds.logged \/ reqs.logged)

\* reconcile.Request{NamespacedName{Name}}: the namespace keeps its zero value
ClusterScopedRequest(o) == [name |-> o.name, namespace |-> ""]

\* the requests for a slice of cluster-scoped objects, one per element
RECURSIVE ClusterScopedRequestsOf(_)
ClusterScopedRequestsOf(objs) ==
    IF objs = <<>> THEN EmptyBag
    ELSE SetToBag({ClusterScopedRequest(Head(objs))})
            (+) ClusterScopedRequestsOf(Tail(objs))

\* lines 369-382
TemplateToSupplyChainRequests(f, template) ==
    LET scs == templateToSupplyChains(f, template)
    IN Result(ClusterScopedRequestsOf(scs.supplyChains), scs.logged)

\* lines 384-397
TemplateToDeliveryRequests(f, template) ==
    LET ds == templateToDeliveries(f, template)
    IN Result(ClusterScopedRequestsOf(ds.deliveries), ds.logged)

\* lines 685-701
serviceAccountToDeliveries(f, serviceAccountObject) ==
    IF "serviceAccountToDeliveries.List" \in f
    THEN [deliveries |-> <<>>, logged |-> TRUE]
    ELSE LET Refers(d) == d.serviceAccountRef.name = serviceAccountObject.name
         IN [deliveries |-> SelectSeq(cluster.deliveries, Refers), logged |-> FALSE]

\* lines 631-683: a failure of clusterDeliveryToDeliverables is logged and the
\* loop goes on with no Deliverable for that delivery; the requests are the keys
\* of a map
ServiceAccountToDeliverableRequests(f, serviceAccountObject) ==
    IF "ServiceAccountToDeliverableRequests.List" \in f THEN Result(EmptyBag, TRUE)
    ELSE LET direct == {Request(dl) : dl \in {dl \in Items(cluster.deliverables) :
                            /\ dl.namespace = serviceAccountObject.namespace
                            /\ dl.serviceAccountName = serviceAccountObject.name}}
             ds == serviceAccountToDeliveries(f, serviceAccountObject)
             deliveries == ds.deliveries
             deliveryDeliverables == [i \in DOMAIN deliveries |->
                                         clusterDeliveryToDeliverables(f, deliveries[i])]
             Indirect(i) ==
                 {Request(dl) : dl \in {dl \in Items(deliveryDeliverables[i].deliverables) :
                     /\ dl.serviceAccountName = ""
                     /\ \/ deliveries[i].serviceAccountRef.namespace
                                = serviceAccountObject.namespace
                        \/ (deliveries[i].serviceAccountRef.namespace = ""
                                /\ dl.namespace = serviceAccountObject.namespace)}}
         IN Result(SetToBag(direct \cup UNION {Indirect(i) : i \in DOMAIN deliveries}),
                   ds.logged \/ \E i \in DOMAIN deliveries : deliveryDeliverables[i].err)

\* lines 704-727: the loop returns at the first ServiceAccount subject; a failed
\* Get is logged and the call goes on with the empty object
RoleBindingToDeliverableRequests(f, roleBindingObject) ==
    IF roleBindingObject.kind # "RoleBinding" THEN Result(EmptyBag, TRUE)
    ELSE LET subjects == SelectSeq(roleBindingObject.subjects, IsServiceAccountSubject)
             failed == "RoleBindingToDeliverableRequests.Get" \in f
         IN IF subjects = <<>> THEN Result(EmptyBag, FALSE)
            ELSE LET r == ServiceAccountToDeliverableRequests(f,
                              GetServiceAccount(failed, Head(subjects)))
                 IN Result(r.requests, failed \/ r.logged)

\* lines 729-753: a failed Get returns the empty list
ClusterRoleBindingToDeliverableRequests(f, clusterRoleBindingObject) ==
    IF clusterRoleBindingObject.kind # "ClusterRoleBinding" THEN Result(EmptyBag, TRUE)
    ELSE LET subjects == SelectSeq(clusterRoleBindingObject.subjects,
                                   IsServiceAccountSubject)
         IN IF subjects = <<>> THEN Result(EmptyBag, FALSE)
            ELSE IF "ClusterRoleBindingToDeliverableRequests.Get" \in f
            THEN Result(EmptyBag, TRUE)
            ELSE ServiceAccountToDeliverableRequests(f,
                     GetServiceAccount(FALSE, Head(subjects)))

\* lines 755-778
RoleToDeliverableRequests(f, roleObject) ==
    IF roleObject.kind # "Role" THEN Result(EmptyBag, TRUE)
    ELSE IF "RoleToDeliverableRequests.List" \in f THEN Result(EmptyBag, TRUE)
    ELSE LET Bound(roleBinding) ==
                 /\ roleBinding.roleRef.apiGroup = ""
                 /\ roleBinding.roleRef.kind = "Role"
                 /\ roleBinding.roleRef.name = roleObject.name
                 /\ roleBinding.namespace = roleObject.namespace
             bound == SelectSeq(cluster.roleBindings, Bound)
         IN Concat([i \in DOMAIN bound |-> RoleBindingToDeliverableRequests(f, bound[i])])

\* lines 780-818: a failure of either List returns nil, whatever was collected
ClusterRoleToDeliverableRequests(f, clusterRoleObject) ==
    IF clusterRoleObject.kind # "ClusterRole" THEN Result(EmptyBag, TRUE)
    ELSE IF "ClusterRoleToDeliverableRequests.ListClusterRoleBindings" \in f
    THEN Result(EmptyBag, TRUE)
    ELSE IF "ClusterRoleToDeliverableRequests.ListRoleBindings" \in f
    THEN Result(EmptyBag, TRUE)
    ELSE LET Bound(binding) ==
                 /\ binding.roleRef.apiGroup = ""
                 /\ binding.roleRef.kind = "ClusterRole"
                 /\ binding.roleRef.name = clusterRoleObject.name
             crbs == SelectSeq(cluster.clusterRoleBindings, Bound)
             rbs == SelectSeq(cluster.roleBindings, Bound)
         IN Concat([i \in DOMAIN crbs |->
                       ClusterRoleBindingToDeliverableRequests(f, crbs[i])]
                   \o [i \in DOMAIN rbs |-> RoleBindingToDeliverableRequests(f, rbs[i])])

\* runTemplateRefMatch accepting only a reference that names its kind
runTemplateRefMatch_KindRequired(ref, runTemplate) ==
    IF ref.name # runTemplate.name THEN FALSE
    ELSE ref.kind = "ClusterRunTemplate"

\* lines 433-439
runTemplateRefMatch(ref, runTemplate) ==
    IF ref.name # runTemplate.name THEN FALSE
    ELSE ref.kind = "ClusterRunTemplate" \/ ref.kind = ""

\* lines 316-347
RunTemplateToRunnableRequests(f, object) ==
    IF object.kind # "ClusterRunTemplate" THEN Result(EmptyBag, TRUE)
    ELSE IF "RunTemplateToRunnableRequests.List" \in f THEN Result(EmptyBag, TRUE)
    ELSE LET Matches(r) == runTemplateRefMatch(r.runTemplateRef, object)
         IN Result(RequestsOf(SelectSeq(cluster.runnables, Matches)), FALSE)

\* ServiceAccountToRunnableRequests comparing the name only
ServiceAccountToRunnableRequests_AnyNamespace(f, serviceAccountObject) ==
    IF "ServiceAccountToRunnableRequests.List" \in f THEN Result(EmptyBag, TRUE)
    ELSE LET Uses(r) == r.serviceAccountName = serviceAccountObject.name
         IN Result(RequestsOf(SelectSeq(cluster.runnables, Uses)), FALSE)

\* lines 820-842
ServiceAccountToRunnableRequests(f, serviceAccountObject) ==
    IF "ServiceAccountToRunnableRequests.List" \in f THEN Result(EmptyBag, TRUE)
    ELSE LET Uses(r) == /\ r.namespace = serviceAccountObject.namespace
                        /\ r.serviceAccountName = serviceAccountObject.name
         IN Result(RequestsOf(SelectSeq(cluster.runnables, Uses)), FALSE)

\* lines 844-868: as RoleBindingToWorkloadRequests, a failed Get is logged and
\* the call goes on with the empty object
RoleBindingToRunnableRequests(f, roleBindingObject) ==
    IF roleBindingObject.kind # "RoleBinding" THEN Result(EmptyBag, TRUE)
    ELSE LET subjects == SelectSeq(roleBindingObject.subjects, IsServiceAccountSubject)
             failed == "RoleBindingToRunnableRequests.Get" \in f
         IN IF subjects = <<>> THEN Result(EmptyBag, FALSE)
            ELSE LET r == ServiceAccountToRunnableRequests(f,
                              GetServiceAccount(failed, Head(subjects)))
                 IN Result(r.requests, failed \/ r.logged)

\* lines 870-894
ClusterRoleBindingToRunnableRequests(f, clusterRoleBindingObject) ==
    IF clusterRoleBindingObject.kind # "ClusterRoleBinding" THEN Result(EmptyBag, TRUE)
    ELSE LET subjects == SelectSeq(clusterRoleBindingObject.subjects,
                                   IsServiceAccountSubject)
         IN IF subjects = <<>> THEN Result(EmptyBag, FALSE)
            ELSE IF "ClusterRoleBindingToRunnableRequests.Get" \in f
            THEN Result(EmptyBag, TRUE)
            ELSE ServiceAccountToRunnableRequests(f,
                     GetServiceAccount(FALSE, Head(subjects)))

\* lines 896-919
RoleToRunnableRequests(f, roleObject) ==
    IF roleObject.kind # "Role" THEN Result(EmptyBag, TRUE)
    ELSE IF "RoleToRunnableRequests.List" \in f THEN Result(EmptyBag, TRUE)
    ELSE LET Bound(roleBinding) ==
                 /\ roleBinding.roleRef.apiGroup = ""
                 /\ roleBinding.roleRef.kind = "Role"
                 /\ roleBinding.roleRef.name = roleObject.name
                 /\ roleBinding.namespace = roleObject.namespace
             bound == SelectSeq(cluster.roleBindings, Bound)
         IN Concat([i \in DOMAIN bound |-> RoleBindingToRunnableRequests(f, bound[i])])

\* lines 921-958
ClusterRoleToRunnableRequests(f, clusterRoleObject) ==
    IF clusterRoleObject.kind # "ClusterRole" THEN Result(EmptyBag, TRUE)
    ELSE IF "ClusterRoleToRunnableRequests.ListClusterRoleBindings" \in f
    THEN Result(EmptyBag, TRUE)
    ELSE IF "ClusterRoleToRunnableRequests.ListRoleBindings" \in f
    THEN Result(EmptyBag, TRUE)
    ELSE LET Bound(binding) ==
                 /\ binding.roleRef.apiGroup = ""
                 /\ binding.roleRef.kind = "ClusterRole"
                 /\ binding.roleRef.name = clusterRoleObject.name
             crbs == SelectSeq(cluster.clusterRoleBindings, Bound)
             rbs == SelectSeq(cluster.roleBindings, Bound)
         IN Concat([i \in DOMAIN crbs |->
                       ClusterRoleBindingToRunnableRequests(f, crbs[i])]
                   \o [i \in DOMAIN rbs |-> RoleBindingToRunnableRequests(f, rbs[i])])

\* ------------------------------------------------------------- mapper calls
Workload(name, namespace, labels, serviceAccountName) ==
    [kind |-> "Workload", name |-> name, namespace |-> namespace, labels |-> labels,
     serviceAccountName |-> serviceAccountName]

TemplateRef(kind, name) == [kind |-> kind, name |-> name]

ServiceAccountRef(name, namespace) == [name |-> name, namespace |-> namespace]

ClusterSupplyChain(name, selector, resources, serviceAccountRef) ==
    [kind |-> "ClusterSupplyChain", name |-> name, namespace |-> "",
     selector |-> selector, resources |-> resources,
     serviceAccountRef |-> serviceAccountRef]

Template(kind, name) == [kind |-> kind, name |-> name, namespace |-> ""]

ServiceAccount(name, namespace) ==
    [kind |-> "ServiceAccount", name |-> name, namespace |-> namespace]

\* an object of a type the function does not expect
OtherObject == [kind |-> "ConfigMap", name |-> "other", namespace |-> "ns1"]

LabelPairs == {"a", "b"}

SeqsUpTo(S, n) == UNION {[1..m -> S] : m \in 0..n}

\* at most one call site fails during a call
Failures(sites) == {{}} \cup {{site} : site \in sites}

ClusterSupplyChainSites ==
    {"clusterSupplyChainToWorkloads.addGVK",
     "clusterSupplyChainToWorkloads.ListSupplyChains",
     "clusterSupplyChainToWorkloads.ListWorkloads"}

TemplateSites ==
    {"templateToSupplyChains.addGVK", "templateToSupplyChains.List"}
        \cup ClusterSupplyChainSites

ServiceAccountSites ==
    {"ServiceAccountToWorkloadRequests.List", "serviceAccountToSupplyChains.List"}
        \cup ClusterSupplyChainSites

\* the reconciler is not exercised
InitReconcilerIdle ==
    /\ runnables = {}
    /\ api = [k \in RunnableKeys |-> NoRunnable]
    /\ cache = api
    /\ InitLocals

\* the record of a call of mapper function fn
Call(fn, object, f, r) ==
    [fn |-> fn, object |-> object, fail |-> f, requests |-> r.requests,
     logged |-> r.logged]

\* the runtime takes the requests
MapperReturn ==
    /\ mapping.fn # "none"
    /\ mapping' = NoMapping
    /\ UNCHANGED <<cluster, runnables, api, cache, pc, runnable, conditionManager,
                   managers, stampedObject, outputs, realizeErr, err, changed, calls,
                   persisted, result, ctxCancelled, templating,
                   lastReconcile>>

\* templates whose change events reach the mapper
Templates ==
    {Template("ClusterSourceTemplate", "t1"), Template("ClusterImageTemplate", "t1"),
     Template("ClusterSourceTemplate", "t2")}

\* a change event of a template
MapTemplateToWorkloads ==
    /\ mapping.fn = "none"
    /\ \E template \in Templates, f \in Failures(TemplateSites) :
          mapping' = Call("TemplateToWorkloadRequests", template, f,
                          TemplateToWorkloadRequests(f, template))
    /\ UNCHANGED <<cluster, runnables, api, cache, pc, runnable, conditionManager,
                   managers, stampedObject, outputs, realizeErr, err, changed, calls,
                   persisted, result, ctxCancelled, templating,
                   lastReconcile>>

\* a change event of a ClusterSupplyChain
MapClusterSupplyChainToWorkloads ==
    /\ mapping.fn = "none"
    /\ \E object \in Items(cluster.supplyChains) \cup {OtherObject},
          f \in Failures(ClusterSupplyChainSites) :
          mapping' = Call("ClusterSupplyChainToWorkloadRequests", object, f,
                          ClusterSupplyChainToWorkloadRequests(f, object))
    /\ UNCHANGED <<cluster, runnables, api, cache, pc, runnable, conditionManager,
                   managers, stampedObject, outputs, realizeErr, err, changed, calls,
                   persisted, result, ctxCancelled, templating,
                   lastReconcile>>

\* resources of the chains: references to templates t1 of two kinds
Resources ==
    SeqsUpTo({TemplateRef("ClusterSourceTemplate", "t1"),
              TemplateRef("ClusterImageTemplate", "t1")}, MaxResources)

\* two Workloads and two ClusterSupplyChains with any labels and selectors
InitMapper ==
    /\ InitReconcilerIdle
    /\ \E l1 \in SUBSET LabelPairs, l2 \in {{"a"}, {"a", "b"}},
          s1 \in SUBSET LabelPairs, s2 \in SUBSET LabelPairs,
          r1 \in Resources, r2 \in Resources :
          cluster = [EmptyCluster EXCEPT
              !.workloads = <<Workload("w1", "ns1", l1, ""), Workload("w2", "ns2", l2, "")>>,
              !.supplyChains =
                  <<ClusterSupplyChain("sc1", s1, r1, ServiceAccountRef("", "")),
                    ClusterSupplyChain("sc2", s2, r2, ServiceAccountRef("", ""))>>]
    /\ mapping = NoMapping
    /\ templating = NoTemplating

NextMapper ==
    \/ MapTemplateToWorkloads
    \/ MapClusterSupplyChainToWorkloads
    \/ MapperReturn

SpecMapper == InitMapper /\ [][NextMapper]_vars

\* service accounts whose change events reach the mapper
ServiceAccounts ==
    {ServiceAccount("sa1", "ns1"), ServiceAccount("sa1", "ns2"),
     ServiceAccount("sa2", "ns1")}

\* a change event of a ServiceAccount
MapServiceAccountToWorkloads ==
    /\ mapping.fn = "none"
    /\ \E object \in ServiceAccounts, f \in Failures(ServiceAccountSites) :
          mapping' = Call("ServiceAccountToWorkloadRequests", object, f,
                          ServiceAccountToWorkloadRequests(f, object))
    /\ UNCHANGED <<cluster, runnables, api, cache, pc, runnable, conditionManager,
                   managers, stampedObject, outputs, realizeErr, err, changed, calls,
                   persisted, result, ctxCancelled, templating,
                   lastReconcile>>

ServiceAccountNames == {"", "sa1", "sa2"}

ServiceAccountRefs ==
    {ServiceAccountRef(n, ns) : n \in ServiceAccountNames, ns \in {"", "ns1", "ns2"}}

\* two Workloads with or without a service account of their own, and two
\* ClusterSupplyChains with any serviceAccountRef
InitServiceAccount ==
    /\ InitReconcilerIdle
    /\ \E n1 \in ServiceAccountNames, n2 \in ServiceAccountNames,
          ns2 \in {"ns1", "ns2"}, l2 \in {{"a"}, {"a", "b"}},
          s1 \in {{}, {"a"}, {"b"}}, s2 \in {{"a"}, {"a", "b"}},
          ref1 \in ServiceAccountRefs, ref2 \in ServiceAccountRefs :
          cluster = [EmptyCluster EXCEPT
              !.workloads = <<Workload("w1", "ns1", {"a"}, n1), Workload("w2", ns2, l2, n2)>>,
              !.supplyChains =
                  <<ClusterSupplyChain("sc1", s1, <<>>, ref1),
                    ClusterSupplyChain("sc2", s2, <<>>, ref2)>>]
    /\ mapping = NoMapping
    /\ templating = NoTemplating

NextServiceAccount ==
    \/ MapServiceAccountToWorkloads
    \/ MapperReturn

SpecServiceAccount == InitServiceAccount /\ [][NextServiceAccount]_vars

RoleRef(apiGroup, kind, name) == [apiGroup |-> apiGroup, kind |-> kind, name |-> name]

Subject(apiGroup, kind, name, namespace) ==
    [apiGroup |-> apiGroup, kind |-> kind, name |-> name, namespace |-> namespace]

RoleBinding(name, namespace, roleRef, subjects) ==
    [kind |-> "RoleBinding", name |-> name, namespace |-> namespace,
     roleRef |-> roleRef, subjects |-> subjects]

ClusterRoleBinding(name, roleRef, subjects) ==
    [kind |-> "ClusterRoleBinding", name |-> name, namespace |-> "",
     roleRef |-> roleRef, subjects |-> subjects]

Role(name, namespace) == [kind |-> "Role", name |-> name, namespace |-> namespace]

ClusterRole(name) == [kind |-> "ClusterRole", name |-> name, namespace |-> ""]

\* the API group of the rbac types, as in the roleRef of the example RoleBinding
RbacGroup == "rbac.authorization.k8s.io"

SubjectSA1 == Subject("", "ServiceAccount", "sa1", "ns1")
SubjectSA2 == Subject("", "ServiceAccount", "sa2", "ns1")
SubjectUser == Subject(RbacGroup, "User", "u", "")

BindingSites ==
    {"ServiceAccountToWorkloadRequests.List", "serviceAccountToSupplyChains.List"}

\* a change event of a RoleBinding
MapRoleBindingToWorkloads ==
    /\ mapping.fn = "none"
    /\ \E object \in Items(cluster.roleBindings) \cup {OtherObject},
          f \in Failures({"RoleBindingToWorkloadRequests.Get"} \cup BindingSites) :
          mapping' = Call("RoleBindingToWorkloadRequests", object, f,
                          RoleBindingToWorkloadRequests(f, object))
    /\ UNCHANGED <<cluster, runnables, api, cache, pc, runnable, conditionManager,
                   managers, stampedObject, outputs, realizeErr, err, changed, calls,
                   persisted, result, ctxCancelled, templating,
                   lastReconcile>>

\* a change event of a ClusterRoleBinding
MapClusterRoleBindingToWorkloads ==
    /\ mapping.fn = "none"
    /\ \E object \in Items(cluster.clusterRoleBindings) \cup {OtherObject},
          f \in Failures({"ClusterRoleBindingToWorkloadRequests.Get"} \cup BindingSites) :
          mapping' = Call("ClusterRoleBindingToWorkloadRequests", object, f,
                          ClusterRoleBindingToWorkloadRequests(f, object))
    /\ UNCHANGED <<cluster, runnables, api, cache, pc, runnable, conditionManager,
                   managers, stampedObject, outputs, realizeErr, err, changed, calls,
                   persisted, result, ctxCancelled, templating,
                   lastReconcile>>

\* a change event of a Role
MapRoleToWorkloads ==
    /\ mapping.fn = "none"
    /\ \E object \in {Role("r1", "ns1"), Role("r1", "ns2"), OtherObject},
          f \in Failures({"RoleToWorkloadRequests.List",
                          "RoleBindingToWorkloadRequests.Get"}) :
          mapping' = Call("RoleToWorkloadRequests", object, f,
                          RoleToWorkloadRequests(f, object))
    /\ UNCHANGED <<cluster, runnables, api, cache, pc, runnable, conditionManager,
                   managers, stampedObject, outputs, realizeErr, err, changed, calls,
                   persisted, result, ctxCancelled, templating,
                   lastReconcile>>

\* a change event of a ClusterRole
MapClusterRoleToWorkloads ==
    /\ mapping.fn = "none"
    /\ \E object \in {ClusterRole("r1"), OtherObject},
          f \in Failures({"ClusterRoleToWorkloadRequests.ListClusterRoleBindings",
                          "ClusterRoleToWorkloadRequests.ListRoleBindings",
                          "ClusterRoleBindingToWorkloadRequests.Get"}) :
          mapping' = Call("ClusterRoleToWorkloadRequests", object, f,
                          ClusterRoleToWorkloadRequests(f, object))
    /\ UNCHANGED <<cluster, runnables, api, cache, pc, runnable, conditionManager,
                   managers, stampedObject, outputs, realizeErr, err, changed, calls,
                   persisted, result, ctxCancelled, templating,
                   lastReconcile>>

\* two Workloads, a ClusterSupplyChain that matches both, two RoleBindings and
\* a ClusterRoleBinding whose roleRef names r1
InitBindings ==
    /\ InitReconcilerIdle
    /\ \E n1 \in {"", "sa1"},
          ref \in {ServiceAccountRef("", ""), ServiceAccountRef("sa1", ""),
                   ServiceAccountRef("sa1", "ns1")},
          g1 \in {"", RbacGroup}, g2 \in {"", RbacGroup}, g3 \in {"", RbacGroup},
          k1 \in {"Role", "ClusterRole"}, k2 \in {"Role", "ClusterRole"},
          subjects1 \in SeqsUpTo({SubjectSA1, SubjectSA2, SubjectUser}, MaxSubjects),
          subjects3 \in {<<>>, <<SubjectSA1>>, <<SubjectUser, SubjectSA2>>} :
          cluster =
              [workloads |-> <<Workload("w1", "ns1", {"a"}, n1),
                               Workload("w2", "ns1", {"a"}, "sa2")>>,
               supplyChains |-> <<ClusterSupplyChain("sc1", {}, <<>>, ref)>>,
               roleBindings |->
                   <<RoleBinding("rb1", "ns1", RoleRef(g1, k1, "r1"), subjects1),
                     RoleBinding("rb2", "ns1", RoleRef(g2, k2, "r1"), <<SubjectSA1>>)>>,
               clusterRoleBindings |->
                   <<ClusterRoleBinding("crb1", RoleRef(g3, "ClusterRole", "r1"),
                                        subjects3)>>,
               runnables |-> <<>>, deliverables |-> <<>>, deliveries |-> <<>>]
    /\ mapping = NoMapping
    /\ templating = NoTemplating

NextBindings ==
    \/ MapRoleBindingToWorkloads
    \/ MapClusterRoleBindingToWorkloads
    \/ MapRoleToWorkloads
    \/ MapClusterRoleToWorkloads
    \/ MapperReturn

SpecBindings == InitBindings /\ [][NextBindings]_vars

RunnableObject(name, namespace, runTemplateRef, serviceAccountName) ==
    [kind |-> "Runnable", name |-> name, namespace |-> namespace,
     runTemplateRef |-> runTemplateRef, serviceAccountName |-> serviceAccountName]

ClusterRunTemplate(name) == [kind |-> "ClusterRunTemplate", name |-> name, namespace |-> ""]

\* the service account a Runnable without serviceAccountName is reconciled with
\* (part_002 line 72)
SubjectDefault == Subject("", "ServiceAccount", "default", "ns1")

\* a change event of a ClusterRunTemplate
MapRunTemplateToRunnables ==
    /\ mapping.fn = "none"
    /\ \E object \in {ClusterRunTemplate("rt1"), ClusterRunTemplate("rt2"), OtherObject},
          f \in Failures({"RunTemplateToRunnableRequests.List"}) :
          mapping' = Call("RunTemplateToRunnableRequests", object, f,
                          RunTemplateToRunnableRequests(f, object))
    /\ UNCHANGED <<cluster, runnables, api, cache, pc, runnable, conditionManager,
                   managers, stampedObject, outputs, realizeErr, err, changed, calls,
                   persisted, result, ctxCancelled, templating,
                   lastReconcile>>

\* a change event of a ServiceAccount, mapped to Runnables
MapServiceAccountToRunnables ==
    /\ mapping.fn = "none"
    /\ \E object \in {ServiceAccount("sa1", "ns1"), ServiceAccount("sa1", "ns2"),
                      ServiceAccount("default", "ns1"), ServiceAccount("default", "ns2")},
          f \in Failures({"ServiceAccountToRunnableRequests.List"}) :
          mapping' = Call("ServiceAccountToRunnableRequests", object, f,
                          ServiceAccountToRunnableRequests(f, object))
    /\ UNCHANGED <<cluster, runnables, api, cache, pc, runnable, conditionManager,
                   managers, stampedObject, outputs, realizeErr, err, changed, calls,
                   persisted, result, ctxCancelled, templating,
                   lastReconcile>>

\* a change event of a RoleBinding, mapped to Runnables
MapRoleBindingToRunnables ==
    /\ mapping.fn = "none"
    /\ \E object \in Items(cluster.roleBindings) \cup {OtherObject},
          f \in Failures({"RoleBindingToRunnableRequests.Get",
                          "ServiceAccountToRunnableRequests.List"}) :
          mapping' = Call("RoleBindingToRunnableRequests", object, f,
                          RoleBindingToRunnableRequests(f, object))
    /\ UNCHANGED <<cluster, runnables, api, cache, pc, runnable, conditionManager,
                   managers, stampedObject, outputs, realizeErr, err, changed, calls,
                   persisted, result, ctxCancelled, templating,
                   lastReconcile>>

\* a change event of a ClusterRoleBinding, mapped to Runnables
MapClusterRoleBindingToRunnables ==
    /\ mapping.fn = "none"
    /\ \E object \in Items(cluster.clusterRoleBindings) \cup {OtherObject},
          f \in Failures({"ClusterRoleBindingToRunnableRequests.Get",
                          "ServiceAccountToRunnableRequests.List"}) :
          mapping' = Call("ClusterRoleBindingToRunnableRequests", object, f,
                          ClusterRoleBindingToRunnableRequests(f, object))
    /\ UNCHANGED <<cluster, runnables, api, cache, pc, runnable, conditionManager,
                   managers, stampedObject, outputs, realizeErr, err, changed, calls,
                   persisted, result, ctxCancelled, templating,
                   lastReconcile>>

\* a change event of a Role, mapped to Runnables
MapRoleToRunnables ==
    /\ mapping.fn = "none"
    /\ \E object \in {Role("r1", "ns1"), OtherObject},
          f \in Failures({"RoleToRunnableRequests.List",
                          "RoleBindingToRunnableRequests.Get"}) :
          mapping' = Call("RoleToRunnableRequests", object, f,
                          RoleToRunnableRequests(f, object))
    /\ UNCHANGED <<cluster, runnables, api, cache, pc, runnable, conditionManager,
                   managers, stampedObject, outputs, realizeErr, err, changed, calls,
                   persisted, result, ctxCancelled, templating,
                   lastReconcile>>

\* a change event of a ClusterRole, mapped to Runnables
MapClusterRoleToRunnables ==
    /\ mapping.fn = "none"
    /\ \E object \in {ClusterRole("r1"), OtherObject},
          f \in Failures({"ClusterRoleToRunnableRequests.ListClusterRoleBindings",
                          "ClusterRoleToRunnableRequests.ListRoleBindings",
                          "ClusterRoleBindingToRunnableRequests.Get"}) :
          mapping' = Call("ClusterRoleToRunnableRequests", object, f,
                          ClusterRoleToRunnableRequests(f, object))
    /\ UNCHANGED <<cluster, runnables, api, cache, pc, runnable, conditionManager,
                   managers, stampedObject, outputs, realizeErr, err, changed, calls,
                   persisted, result, ctxCancelled, templating,
                   lastReconcile>>

\* two Runnables with any runTemplateRef and service account name, a
\* RoleBinding and a ClusterRoleBinding whose roleRef names r1
InitRunnableMapper ==
    /\ InitReconcilerIdle
    /\ \E k1 \in {"", "ClusterRunTemplate", "ClusterTemplate"},
          n1 \in {"", "sa1", "default"},
          ns2 \in {"ns1", "ns2"}, k2 \in {"", "ClusterTemplate"},
          t2 \in {"rt1", "rt2"}, n2 \in {"", "sa1"},
          g1 \in {"", RbacGroup}, kind1 \in {"Role", "ClusterRole"},
          subjects1 \in SeqsUpTo({SubjectSA1, SubjectUser}, MaxSubjects),
          subjects2 \in {<<SubjectSA1>>, <<SubjectUser, SubjectDefault>>} :
          cluster = [EmptyCluster EXCEPT
              !.runnables =
                  <<RunnableObject("r1", "ns1", TemplateRef(k1, "rt1"), n1),
                    RunnableObject("r2", ns2, TemplateRef(k2, t2), n2)>>,
              !.roleBindings =
                  <<RoleBinding("rb1", "ns1", RoleRef(g1, kind1, "r1"), subjects1)>>,
              !.clusterRoleBindings =
                  <<ClusterRoleBinding("crb1", RoleRef("", "ClusterRole", "r1"), subjects2)>>]
    /\ mapping = NoMapping
    /\ templating = NoTemplating

NextRunnableMapper ==
    \/ MapRunTemplateToRunnables
    \/ MapServiceAccountToRunnables
    \/ MapRoleBindingToRunnables
    \/ MapClusterRoleBindingToRunnables
    \/ MapRoleToRunnables
    \/ MapClusterRoleToRunnables
    \/ MapperReturn

SpecRunnableMapper == InitRunnableMapper /\ [][NextRunnableMapper]_vars

Deliverable(name, namespace, labels, serviceAccountName) ==
    [kind |-> "Deliverable", name |-> name, namespace |-> namespace, labels |-> labels,
     serviceAccountName |-> serviceAccountName]

ClusterDelivery(name, selector, resources, serviceAccountRef) ==
    [kind |-> "ClusterDelivery", name |-> name, namespace |-> "",
     selector |-> selector, resources |-> resources,
     serviceAccountRef |-> serviceAccountRef]

\* the Deliverable with the fields of a Workload, the ClusterDelivery with the
\* fields of a ClusterSupplyChain
DeliverableOf(wl) ==
    Deliverable(wl.name, wl.namespace, wl.labels, wl.serviceAccountName)

DeliveryOf(sc) ==
    ClusterDelivery(sc.name, sc.selector, sc.resources, sc.serviceAccountRef)

ClusterDeliverySites ==
    {"clusterDeliveryToDeliverables.addGVK",
     "clusterDeliveryToDeliverables.ListDeliveries",
     "clusterDeliveryToDeliverables.ListDeliverables"}

TemplateToDeliverySites ==
    {"templateToDeliveries.addGVK", "templateToDeliveries.List"}

ServiceAccountToDeliverableSites ==
    {"ServiceAccountToDeliverableRequests.List", "serviceAccountToDeliveries.List"}
        \cup ClusterDeliverySites

\* a change event of a template, mapped to the supply chains
MapTemplateToSupplyChains ==
    /\ mapping.fn = "none"
    /\ \E object \in Templates, f \in Failures({"templateToSupplyChains.addGVK",
                          "templateToSupplyChains.List"}) :
          mapping' = Call("TemplateToSupplyChainRequests", object, f,
                          TemplateToSupplyChainRequests(f, object))
    /\ UNCHANGED <<cluster, runnables, api, cache, pc, runnable, conditionManager,
                   managers, stampedObject, outputs, realizeErr, err, changed, calls,
                   persisted, result, ctxCancelled, templating,
                   lastReconcile>>

\* a change event of a template, mapped to the deliveries
MapTemplateToDeliveries ==
    /\ mapping.fn = "none"
    /\ \E object \in Templates, f \in Failures(TemplateToDeliverySites) :
          mapping' = Call("TemplateToDeliveryRequests", object, f,
                          TemplateToDeliveryRequests(f, object))
    /\ UNCHANGED <<cluster, runnables, api, cache, pc, runnable, conditionManager,
                   managers, stampedObject, outputs, realizeErr, err, changed, calls,
                   persisted, result, ctxCancelled, templating,
                   lastReconcile>>

\* a change event of a template, mapped to the Deliverables
MapTemplateToDeliverables ==
    /\ mapping.fn = "none"
    /\ \E object \in Templates, f \in Failures(TemplateToDeliverySites \cup ClusterDeliverySites) :
          mapping' = Call("TemplateToDeliverableRequests", object, f,
                          TemplateToDeliverableRequests(f, object))
    /\ UNCHANGED <<cluster, runnables, api, cache, pc, runnable, conditionManager,
                   managers, stampedObject, outputs, realizeErr, err, changed, calls,
                   persisted, result, ctxCancelled, templating,
                   lastReconcile>>

\* a change event of a ClusterDelivery of the cluster, or of another object
MapClusterDeliveryToDeliverables ==
    /\ mapping.fn = "none"
    /\ \E object \in Items(cluster.deliveries) \cup {OtherObject}, f \in Failures(ClusterDeliverySites) :
          mapping' = Call("ClusterDeliveryToDeliverableRequests", object, f,
                          ClusterDeliveryToDeliverableRequests(f, object))
    /\ UNCHANGED <<cluster, runnables, api, cache, pc, runnable, conditionManager,
                   managers, stampedObject, outputs, realizeErr, err, changed, calls,
                   persisted, result, ctxCancelled, templating,
                   lastReconcile>>

\* a change event of a ServiceAccount
MapServiceAccountToDeliverables ==
    /\ mapping.fn = "none"
    /\ \E object \in ServiceAccounts, f \in Failures(ServiceAccountToDeliverableSites) :
          mapping' = Call("ServiceAccountToDeliverableRequests", object, f,
                          ServiceAccountToDeliverableRequests(f, object))
    /\ UNCHANGED <<cluster, runnables, api, cache, pc, runnable, conditionManager,
                   managers, stampedObject, outputs, realizeErr, err, changed, calls,
                   persisted, result, ctxCancelled, templating,
                   lastReconcile>>

\* a change event of a RoleBinding of the cluster, or of another object
MapRoleBindingToDeliverables ==
    /\ mapping.fn = "none"
    /\ \E object \in Items(cluster.roleBindings) \cup {OtherObject}, f \in Failures({"RoleBindingToDeliverableRequests.Get"}
                              \cup ServiceAccountToDeliverableSites) :
          mapping' = Call("RoleBindingToDeliverableRequests", object, f,
                          RoleBindingToDeliverableRequests(f, object))
    /\ UNCHANGED <<cluster, runnables, api, cache, pc, runnable, conditionManager,
                   managers, stampedObject, outputs, realizeErr, err, changed, calls,
                   persisted, result, ctxCancelled, templating,
                   lastReconcile>>

\* a change event of a ClusterRoleBinding of the cluster, or of another object
MapClusterRoleBindingToDeliverables ==
    /\ mapping.fn = "none"
    /\ \E object \in Items(cluster.clusterRoleBindings) \cup {OtherObject}, f \in Failures({"ClusterRoleBindingToDeliverableRequests.Get"}
                              \cup ServiceAccountToDeliverableSites) :
          mapping' = Call("ClusterRoleBindingToDeliverableRequests", object, f,
                          ClusterRoleBindingToDeliverableRequests(f, object))
    /\ UNCHANGED <<cluster, runnables, api, cache, pc, runnable, conditionManager,
                   managers, stampedObject, outputs, realizeErr, err, changed, calls,
                   persisted, result, ctxCancelled, templating,
                   lastReconcile>>

\* a change event of a Role
MapRoleToDeliverables ==
    /\ mapping.fn = "none"
    /\ \E object \in {Role("r1", "ns1"), OtherObject}, f \in Failures({"RoleToDeliverableRequests.List",
                           "RoleBindingToDeliverableRequests.Get"}
                              \cup ServiceAccountToDeliverableSites) :
          mapping' = Call("RoleToDeliverableRequests", object, f,
                          RoleToDeliverableRequests(f, object))
    /\ UNCHANGED <<cluster, runnables, api, cache, pc, runnable, conditionManager,
                   managers, stampedObject, outputs, realizeErr, err, changed, calls,
                   persisted, result, ctxCancelled, templating,
                   lastReconcile>>

\* a change event of a ClusterRole
MapClusterRoleToDeliverables ==
    /\ mapping.fn = "none"
    /\ \E object \in {ClusterRole("r1"), OtherObject}, f \in Failures({"ClusterRoleToDeliverableRequests.ListClusterRoleBindings",
                           "ClusterRoleToDeliverableRequests.ListRoleBindings",
                           "ClusterRoleBindingToDeliverableRequests.Get",
                           "RoleBindingToDeliverableRequests.Get"}
                              \cup ServiceAccountToDeliverableSites) :
          mapping' = Call("ClusterRoleToDeliverableRequests", object, f,
                          ClusterRoleToDeliverableRequests(f, object))
    /\ UNCHANGED <<cluster, runnables, api, cache, pc, runnable, conditionManager,
                   managers, stampedObject, outputs, realizeErr, err, changed, calls,
                   persisted, result, ctxCancelled, templating,
                   lastReconcile>>

\* two Workloads and two ClusterSupplyChains, the Deliverables and the
\* ClusterDeliveries with the same fields, and the bindings of a service account
InitDeliverable ==
    /\ InitReconcilerIdle
    /\ \E n1 \in {"", "sa1"}, n2 \in {"", "sa1"}, l2 \in {{"a"}, {"a", "b"}},
          s1 \in {{}, {"a"}}, r1 \in Resources,
          ref1 \in {ServiceAccountRef("", ""), ServiceAccountRef("sa1", ""),
                    ServiceAccountRef("sa1", "ns1")},
          k1 \in {"Role", "ClusterRole"},
          subjects1 \in {<<>>, <<SubjectSA1>>, <<SubjectUser, SubjectSA1>>} :
          LET workloads == <<Workload("w1", "ns1", {"a"}, n1),
                             Workload("w2", "ns2", l2, n2)>>
              supplyChains ==
                  <<ClusterSupplyChain("sc1", s1, r1, ref1),
                    ClusterSupplyChain("sc2", {"a"},
                        <<TemplateRef("ClusterImageTemplate", "t1")>>,
                        ServiceAccountRef("sa1", ""))>>
          IN cluster = [EmptyCluster EXCEPT
                 !.workloads = workloads,
                 !.supplyChains = supplyChains,
                 !.deliverables = [i \in DOMAIN workloads |-> DeliverableOf(workloads[i])],
                 !.deliveries = [i \in DOMAIN supplyChains |-> DeliveryOf(supplyChains[i])],
                 !.roleBindings =
                     <<RoleBinding("rb1", "ns1", RoleRef("", k1, "r1"), subjects1)>>,
                 !.clusterRoleBindings =
                     <<ClusterRoleBinding("crb1", RoleRef("", "ClusterRole", "r1"),
                                          <<SubjectSA1>>)>>]
    /\ mapping = NoMapping
    /\ templating = NoTemplating

NextDeliverable ==
    \/ MapTemplateToSupplyChains
    \/ MapTemplateToDeliveries
    \/ MapTemplateToDeliverables
    \/ MapClusterDeliveryToDeliverables
    \/ MapServiceAccountToDeliverables
    \/ MapRoleBindingToDeliverables
    \/ MapClusterRoleBindingToDeliverables
    \/ MapRoleToDeliverables
    \/ MapClusterRoleToDeliverables
    \/ MapperReturn

SpecDeliverable == InitDeliverable /\ [][NextDeliverable]_vars

\* ------------------------------------------------------- template outputs

\* the JSONPath expressions and the values a stamped object may hold at them
JsonPaths == {".status.latestImage", ".status.image", ".spec.image"}

Absent == "<absent>"

Images == {"image1", "image2"}

NilOutput == [type |-> "nil"]

\* templates.Output
Output(source, image, config) ==
    [type |-> "Output", Source |-> source, Image |-> image, Config |-> config]

NilError == [type |-> "nil"]

\* errors.New and fmt.Errorf without %w; the message is the sequence of the
\* parts of the text
errorString(text) == [type |-> "errorString", text |-> <<text>>]

\* fmt.Errorf(format + ": %w", Err)
wrapError(format, Err) == [type |-> "wrapError", format |-> format, Err |-> Err]

\* templates.JsonPathError
JsonPathError(Err, expression) ==
    [type |-> "JsonPathError", Err |-> Err, expression |-> expression]

\* part_001 lines 64-68
RetrieveOutputError(Err, Resource, StampedObject) ==
    [type |-> "RetrieveOutputError", Err |-> Err, Resource |-> Resource,
     StampedObject |-> StampedObject]

\* part_001 lines 77-79: the error types with a method JsonPathExpression
ImplementsJsonPathErrorContext(e) == e.type = "JsonPathError"

NoJsonPathContext == "<no jsonpath context>"

\* JsonPathExpression that never asks the wrapped error
JsonPathExpression_Placeholder(e) == NoJsonPathContext

\* part_001 lines 81-87; the type assertion looks at e.Err itself, it does
\* not unwrap it
JsonPathExpression(e) ==
    IF ImplementsJsonPathErrorContext(e.Err) THEN e.Err.expression
    ELSE NoJsonPathContext

RECURSIVE ErrorMessage(_)
\* Error(): part_001 lines 70-75 for RetrieveOutputError, fmt.Errorf for the
\* wrapping errors
ErrorMessage(e) ==
    CASE e.type = "errorString" -> e.text
      [] e.type = "wrapError" -> e.format \o ErrorMessage(e.Err)
      [] e.type = "JsonPathError" -> ErrorMessage(e.Err)
      [] e.type = "RetrieveOutputError" ->
            <<"unable to retrieve outputs [", JsonPathExpression(e),
              "] from stamped object [", e.StampedObject.namespace, "/",
              e.StampedObject.name, "] of type [", e.StampedObject.type,
              "] for resource [", e.Resource, "]: ">> \o ErrorMessage(e.Err)

\* evaluator.EvaluateJsonPath: the value at the path, an error when there is
\* none
EvaluateJsonPath(path, content) ==
    IF content[path] = Absent
    THEN [value |-> Absent, err |-> errorString("evaluate: find results: is not found")]
    ELSE [value |-> content[path], err |-> NilError]

\* GetOutput whose error does not record the expression
GetOutput_NoExpression(template, stamped) ==
    LET r == EvaluateJsonPath(template.imagePath, stamped.content)
    IN IF r.err # NilError
       THEN [output |-> NilOutput,
             err |-> JsonPathError(
                         wrapError(<<"failed to evaluate the url path [",
                                     template.imagePath, "]: ">>, r.err), "")]
       ELSE [output |-> Output(Absent, r.value, Absent), err |-> NilError]

\* lines 51-64
GetOutput(template, stamped) ==
    LET r == EvaluateJsonPath(template.imagePath, stamped.content)
    IN IF r.err # NilError
       THEN [output |-> NilOutput,
             err |-> JsonPathError(
                         wrapError(<<"failed to evaluate the url path [",
                                     template.imagePath, "]: ">>, r.err),
                         template.imagePath)]
       ELSE [output |-> Output(Absent, r.value, Absent), err |-> NilError]

\* the frame of the steps of the template model
TemplatingFrame ==
    UNCHANGED <<mapperVars, runnables, api, cache, pc, runnable, conditionManager,
                managers, stampedObject, outputs, realizeErr, err, changed, calls,
                persisted, result, ctxCancelled, lastReconcile>>

\* lines 37-38, 46-48 and 51-64: the model of a ClusterImageTemplate is built,
\* given the stamped object and asked for its output
CallGetOutput ==
    /\ templating.step = "stamped"
    /\ LET r == GetOutput(templating.template, templating.stampedObject)
       IN templating' = [templating EXCEPT !.step = "output",
                                           !.output = r.output, !.err = r.err]
    /\ TemplatingFrame

\* the caller wraps a failure to get the output in a RetrieveOutputError: the
\* error of GetOutput itself, that error wrapped once more, or an error that
\* never had a JSONPath
NewRetrieveOutputError ==
    /\ templating.step = "output"
    /\ templating.err # NilError
    /\ \E Err \in {templating.err,
                    wrapError(<<"get output: ">>, templating.err),
                    errorString("stamped object not found")},
          Resource \in {"image-builder", "source-provider"} :
          templating' = [templating EXCEPT
              !.step = "failed",
              !.retrieveErr = RetrieveOutputError(Err, Resource,
                                                  templating.stampedObject)]
    /\ TemplatingFrame

\* the output was retrieved
OutputRetrieved ==
    /\ templating.step = "output"
    /\ templating.err = NilError
    /\ templating' = [templating EXCEPT !.step = "retrieved"]
    /\ TemplatingFrame

\* a ClusterImageTemplate with any imagePath and a stamped object with any
\* content
InitOutput ==
    /\ InitReconcilerIdle
    /\ cluster = EmptyCluster
    /\ mapping = NoMapping
    /\ \E imagePath \in JsonPaths, content \in [JsonPaths -> Images \cup {Absent}] :
          templating = [step |-> "stamped",
                        template |-> [kind |-> "ClusterImageTemplate",
                                      name |-> "image-template",
                                      imagePath |-> imagePath],
                        stampedObject |-> [namespace |-> "ns1", name |-> "obj",
                                           type |-> "image.kpack.io",
                                           content |-> content],
                        output |-> NilOutput,
                        err |-> NilError,
                        retrieveErr |-> NilError]

NextOutput ==
    \/ CallGetOutput
    \/ NewRetrieveOutputError
    \/ OutputRetrieved

SpecOutput == InitOutput /\ [][NextOutput]_vars

\* a nil *unstructured.Unstructured
NilStampedObject == [type |-> "nil"]

\* the stamped objects a caller passes to a model: nil, or an object with or
\* without an image at each path
ModelStampedObjects ==
    {NilStampedObject}
        \cup {[namespace |-> "ns1", name |-> "obj", type |-> "image.kpack.io",
               content |-> content] : content \in [JsonPaths -> {"image1", Absent}]}

\* lines 37-38: the model keeps the template, its stampedObject field has the
\* zero value
NewClusterImageTemplateModel(template) ==
    [template |-> template, stampedObject |-> NilStampedObject]

\* SetStampedObject that keeps the first object it was given
SetStampedObject_KeepsFirst(t, obj) ==
    IF t.stampedObject = NilStampedObject THEN [t EXCEPT !.stampedObject = obj] ELSE t

\* lines 47-49
SetStampedObject(t, obj) == [t EXCEPT !.stampedObject = obj]

\* line 45: the body is empty
SetInputs(t, inputs) == t

\* the fields of the model of templating
ModelOf(t) == [template |-> t.template, stampedObject |-> t.stampedObject]

\* a call of SetInputs with any inputs
CallSetInputs ==
    /\ templating.step = "model"
    /\ templating.calls < MaxModelCalls
    /\ \E inputs \in {"nil", "inputs"} :
          LET t == SetInputs(ModelOf(templating), inputs)
          IN templating' = [templating EXCEPT
                 !.template = t.template, !.stampedObject = t.stampedObject,
                 !.before = ModelOf(templating), !.lastCall = "SetInputs",
                 !.calls = @ + 1]
    /\ TemplatingFrame

\* a call of SetStampedObject with any object, nil included
CallSetStampedObject ==
    /\ templating.step = "model"
    /\ templating.calls < MaxModelCalls
    /\ \E obj \in ModelStampedObjects :
          LET t == SetStampedObject(ModelOf(templating), obj)
          IN templating' = [templating EXCEPT
                 !.template = t.template, !.stampedObject = t.stampedObject,
                 !.before = ModelOf(templating), !.lastCall = "SetStampedObject",
                 !.passed = obj, !.sets = @ + 1, !.calls = @ + 1]
    /\ TemplatingFrame

\* a call of GetOutput, lines 51-64: line 52 reads the content through the
\* stampedObject pointer, which panics when the pointer is nil
CallModelGetOutput ==
    /\ templating.step = "model"
    /\ templating.calls < MaxModelCalls
    /\ IF templating.stampedObject = NilStampedObject
       THEN templating' = [templating EXCEPT
                !.step = "panicked", !.before = ModelOf(templating),
                !.lastCall = "GetOutput", !.output = NilOutput, !.err = NilError,
                !.calls = @ + 1]
       ELSE LET r == GetOutput(templating.template, templating.stampedObject)
            IN templating' = [templating EXCEPT
                   !.before = ModelOf(templating), !.lastCall = "GetOutput",
                   !.output = r.output, !.err = r.err, !.calls = @ + 1]
    /\ TemplatingFrame

\* the model of a ClusterImageTemplate with any imagePath, just built; passed
\* is the last argument of SetStampedObject, sets the number of its calls,
\* before the model as it was before the last call
InitModel ==
    /\ InitReconcilerIdle
    /\ cluster = EmptyCluster
    /\ mapping = NoMapping
    /\ \E imagePath \in JsonPaths :
          LET t == NewClusterImageTemplateModel(
                       [kind |-> "ClusterImageTemplate", name |-> "image-template",
                        imagePath |-> imagePath])
          IN templating = [step |-> "model",
                           template |-> t.template,
                           stampedObject |-> t.stampedObject,
                           before |-> t,
                           lastCall |-> "none",
                           passed |-> NilStampedObject,
                           sets |-> 0,
                           calls |-> 0,
                           output |-> NilOutput,
                           err |-> NilError]

NextModel ==
    \/ CallSetInputs
    \/ CallSetStampedObject
    \/ CallModelGetOutput

SpecModel == InitModel /\ [][NextModel]_vars

\* ------------------------------------------------------------- properties
Called(k, name) == \E i \in DOMAIN calls[k] : calls[k][i] = name

\* condition c is in the status conditions the reconcile of k finalized
Recorded(k, c) == \E i \in DOMAIN runnable[k].conditions : runnable[k].conditions[i] = c

\* the reconcile of k returned after Realize failed with an error of this kind
ReturnedAfter(k, kind) == pc[k] = "done" /\ realizeErr[k].kind = kind

WatchFailed(k) == err[k].kind = "TrackingError"

StatusUpdateFailed(k) == result[k].kind = "StatusUpdateError"

\* C1: after an ApplyStampedObjectError caused by a Forbidden API error, the
\* StampedObjectRejectedByAPIServer condition is recorded and Reconcile returns
\* nil, provided neither the watch registration nor the status update failed.
C1_ForbiddenApplyIsHandled ==
    \A k \in RunnableKeys :
        (/\ ReturnedAfter(k, "ApplyStampedObjectError")
         /\ IsForbidden(realizeErr[k])
         /\ ~WatchFailed(k)
         /\ ~StatusUpdateFailed(k))
        => /\ Recorded(k, StampedObjectRejectedByAPIServerCondition)
           /\ result[k] = NoError

C1_Witness ==
    \E k \in RunnableKeys :
        /\ ReturnedAfter(k, "ApplyStampedObjectError")
        /\ IsForbidden(realizeErr[k])
        /\ Called(k, "Watch")
        /\ Called(k, "StatusUpdate")
        /\ ~WatchFailed(k)
        /\ ~StatusUpdateFailed(k)

\* C2: after an ApplyStampedObjectError caused by any other API error, the same
\* condition is recorded and Reconcile returns a non-nil error, which is the
\* unhandled error unless the status update failed first.
C2_OtherApplyIsUnhandled ==
    \A k \in RunnableKeys :
        (ReturnedAfter(k, "ApplyStampedObjectError") /\ ~IsForbidden(realizeErr[k]))
        => /\ Recorded(k, StampedObjectRejectedByAPIServerCondition)
           /\ result[k] # NoError
           /\ ~StatusUpdateFailed(k) => IsUnhandledError(result[k])

C2_Witness ==
    \E k \in RunnableKeys :
        /\ ReturnedAfter(k, "ApplyStampedObjectError")
        /\ ~IsForbidden(realizeErr[k])
        /\ ~WatchFailed(k)
        /\ result[k] = NewUnhandledError(realizeErr[k])

\* C3 as stated: after a GetRunTemplateError the template-not-ready condition is
\* recorded and Reconcile returns nil (even granting that neither the watch
\* registration nor the status update failed).
C3_Original ==
    \A k \in RunnableKeys :
        (/\ ReturnedAfter(k, "GetRunTemplateError")
         /\ ~WatchFailed(k)
         /\ ~StatusUpdateFailed(k))
        => /\ Recorded(k, RunTemplateMissingCondition)
           /\ result[k] = NoError

\* C3 amended: after a GetRunTemplateError the RunTemplateMissing condition is
\* recorded and Reconcile returns a non-nil error: the error is wrapped as
\* unhandled, so the runtime requeues.
C3_GetRunTemplateIsUnhandled ==
    \A k \in RunnableKeys :
        ReturnedAfter(k, "GetRunTemplateError")
        => /\ Recorded(k, RunTemplateMissingCondition)
           /\ result[k] # NoError
           /\ ~StatusUpdateFailed(k) => IsUnhandledError(result[k])

C3_Witness ==
    \E k \in RunnableKeys :
        /\ ReturnedAfter(k, "GetRunTemplateError")
        /\ ~WatchFailed(k)
        /\ result[k] = NewUnhandledError(realizeErr[k])

\* C4 as stated: after a RetrieveOutputError the output-path-not-satisfied
\* condition is recorded and Reconcile returns nil.
C4_Original ==
    \A k \in RunnableKeys :
        ReturnedAfter(k, "RetrieveOutputError")
        => /\ Recorded(k, OutputPathNotSatisfiedCondition)
           /\ result[k] = NoError

\* C4 amended: after a RetrieveOutputError the output-path-not-satisfied
\* condition is recorded, the classification step leaves the error handled, and
\* Reconcile returns nil provided neither the watch registration nor the status
\* update failed.
C4_RetrieveOutputIsHandled ==
    \A k \in RunnableKeys :
        /\ (realizeErr[k].kind = "RetrieveOutputError" /\ err[k].kind = "RetrieveOutputError")
            => ~IsUnhandledError(err[k])
        /\ ReturnedAfter(k, "RetrieveOutputError")
            => /\ Recorded(k, OutputPathNotSatisfiedCondition)
               /\ (~WatchFailed(k) /\ ~StatusUpdateFailed(k)) => result[k] = NoError

C4_Witness ==
    \E k \in RunnableKeys :
        /\ ReturnedAfter(k, "RetrieveOutputError")
        /\ Called(k, "Watch")
        /\ Called(k, "StatusUpdate")
        /\ ~WatchFailed(k)
        /\ ~StatusUpdateFailed(k)

\* C5 as stated: after a StampError or a ResolveSelectorError the
\* TemplateStampFailure condition is recorded and Reconcile returns nil.
C5_Original ==
    \A k \in RunnableKeys :
        (ReturnedAfter(k, "StampError") \/ ReturnedAfter(k, "ResolveSelectorError"))
        => /\ Recorded(k, TemplateStampFailureCondition)
           /\ result[k] = NoError

\* C5 amended: after a StampError or a ResolveSelectorError the
\* TemplateStampFailure condition is recorded and Reconcile returns nil provided
\* neither the watch registration nor the status update failed.
C5_StampFailureIsHandled ==
    \A k \in RunnableKeys :
        (ReturnedAfter(k, "StampError") \/ ReturnedAfter(k, "ResolveSelectorError"))
        => /\ Recorded(k, TemplateStampFailureCondition)
           /\ (~WatchFailed(k) /\ ~StatusUpdateFailed(k)) => result[k] = NoError

C5_Witness ==
    \E k \in RunnableKeys :
        /\ ReturnedAfter(k, "StampError")
        /\ Called(k, "StatusUpdate")
        /\ ~WatchFailed(k)
        /\ ~StatusUpdateFailed(k)

\* C6: after a ListCreatedObjectsError the failed-to-list condition is recorded
\* and Reconcile returns a non-nil error, which is the unhandled error unless
\* the status update failed first.
C6_ListCreatedObjectsIsUnhandled ==
    \A k \in RunnableKeys :
        ReturnedAfter(k, "ListCreatedObjectsError")
        => /\ Recorded(k, FailedToListCreatedObjectsCondition)
           /\ result[k] # NoError
           /\ ~StatusUpdateFailed(k) => IsUnhandledError(result[k])

C6_Witness ==
    \E k \in RunnableKeys :
        /\ ReturnedAfter(k, "ListCreatedObjectsError")
        /\ ~WatchFailed(k)
        /\ result[k] = NewUnhandledError(realizeErr[k])

\* C7: an error of Realize that is none of the known kinds gets the Unknown
\* condition and is wrapped as unhandled: Reconcile returns a non-nil error.
C7_UnknownErrorIsUnhandled ==
    \A k \in RunnableKeys :
        ReturnedAfter(k, "OtherError")
        => /\ Recorded(k, UnknownErrorCondition)
           /\ result[k] # NoError
           /\ ~StatusUpdateFailed(k) => IsUnhandledError(result[k])

C7_Witness ==
    \E k \in RunnableKeys :
        /\ ReturnedAfter(k, "OtherError")
        /\ ~WatchFailed(k)
        /\ result[k] = NewUnhandledError(realizeErr[k])

\* the reconcile of k returned after GetServiceAccountSecret failed
ReturnedAfterSecretNotFound(k) ==
    pc[k] = "done" /\ err[k].kind = "ServiceAccountSecretError"

\* C8 as stated: when the service account secret is not found the
\* ServiceAccountSecretNotFound condition is recorded, neither the client
\* builder nor the realizer is invoked, and Reconcile returns nil.
C8_Original ==
    \A k \in RunnableKeys :
        ReturnedAfterSecretNotFound(k)
        => /\ Recorded(k, ServiceAccountSecretNotFoundCondition)
           /\ ~Called(k, "ClientBuilder")
           /\ ~Called(k, "Realize")
           /\ result[k] = NoError

\* C8 amended: when the service account secret is not found the
\* ServiceAccountSecretNotFound condition is recorded, neither the client
\* builder nor the realizer is invoked, and Reconcile returns nil provided the
\* status update did not fail.
C8_SecretNotFoundIsHandled ==
    \A k \in RunnableKeys :
        ReturnedAfterSecretNotFound(k)
        => /\ Recorded(k, ServiceAccountSecretNotFoundCondition)
           /\ ~Called(k, "ClientBuilder")
           /\ ~Called(k, "Realize")
           /\ ~StatusUpdateFailed(k) => result[k] = NoError

C8_Witness ==
    \E k \in RunnableKeys :
        /\ ReturnedAfterSecretNotFound(k)
        /\ Called(k, "StatusUpdate")
        /\ ~StatusUpdateFailed(k)

\* C9: the step that completes a reconcile calls StatusUpdate iff Finalize
\* reported a change, or the status' observedGeneration differed from the
\* generation, or the outputs of the reconcile differed from the status'
\* outputs; no other step of a reconcile calls StatusUpdate.
C9_Step(k) ==
    LET called  == \E i \in DOMAIN calls[k] : calls[k][i] = "StatusUpdate"
        called2 == \E i \in DOMAIN calls'[k] : calls'[k][i] = "StatusUpdate"
    IN  IF pc[k] = "completeReconciliation" /\ pc'[k] = "done"
        THEN called2 <=> \/ changed'[k]
                         \/ runnable[k].observedGeneration # runnable[k].generation
                         \/ runnable[k].outputs # outputs[k]
        ELSE called2 => called

C9_StatusUpdateIffNeeded == [][\A k \in RunnableKeys : C9_Step(k)]_vars

\* a reconcile that finalized its conditions and wrote nothing
C9_Witness ==
    \E k \in RunnableKeys :
        /\ pc[k] = "done"
        /\ Called(k, "Finalize")
        /\ ~Called(k, "StatusUpdate")
        /\ ~changed[k]
        /\ outputs[k] # NilOutputs

\* C10: the observedGeneration a reconcile hands to StatusUpdate is never lower
\* than the observedGeneration persisted at that moment, also when the
\* reconcile read a stale Runnable.
C10_Step(k) ==
    (pc[k] = "completeReconciliation" /\ Called(k, "StatusUpdate")')
    => runnable'[k].observedGeneration >= api[k].observedGeneration

C10_ObservedGenerationMonotonic == [][\A k \in RunnableKeys : C10_Step(k)]_vars

\* a reconcile that read a stale Runnable (the cache still holds an older
\* generation and an older status than were persisted) and wrote its status
C10_Witness ==
    \E k \in RunnableKeys :
        /\ pc[k] = "done"
        /\ Called(k, "StatusUpdate")
        /\ ~StatusUpdateFailed(k)
        /\ cache[k].exists
        /\ cache[k].generation < api[k].generation
        /\ cache[k].observedGeneration < persisted[k]

\* C11: a reconcile whose context was cancelled while it was under way returns
\* without having called StatusUpdate
C11_CancelledWritesNoStatus ==
    \A k \in RunnableKeys :
        (pc[k] = "done" /\ ctxCancelled[k]) => ~Called(k, "StatusUpdate")

\* C12: at the end of a reconcile a stamped object returned by the realizer was
\* registered with the tracker (Watch), and when the registration failed the
\* reconcile returns an error, which is the unhandled tracking error unless the
\* status write failed too
C12_StampedObjectIsWatched ==
    \A k \in RunnableKeys :
        pc[k] = "done" =>
            /\ (stampedObject[k] # NilObject => Called(k, "Watch"))
            /\ (WatchFailed(k) =>
                    /\ result[k] # NoError
                    /\ (~StatusUpdateFailed(k) =>
                            result[k] = NewUnhandledError(PlainError("TrackingError"))))

C12_Witness ==
    \E k \in RunnableKeys :
        /\ pc[k] = "done"
        /\ stampedObject[k] # NilObject
        /\ realizeErr[k] # NoError
        /\ WatchFailed(k)
        /\ ~StatusUpdateFailed(k)

\* C13: while a reconcile is between building its condition manager and
\* finalizing it, the Reconciler's conditionManager field refers to the manager
\* that reconcile built
C13_OwnConditionManager ==
    \A k \in RunnableKeys :
        pc[k] \in {"GetServiceAccountSecret", "ClientBuilder", "Realize", "Watch",
                   "completeReconciliation"}
            => conditionManager = k

\* sc is among the chains whose selectors match the labels of wl with the
\* largest number of pairs
IsBestLabelMatch(sc, wl) ==
    /\ sc.selector \subseteq wl.labels
    /\ \A other \in Items(cluster.supplyChains) :
          other.selector \subseteq wl.labels
              => Cardinality(other.selector) <= Cardinality(sc.selector)

\* sc has a resource whose templateRef has the kind and the name of the template
RefersToTemplate(sc, template) ==
    \E i \in DOMAIN sc.resources :
        sc.resources[i].kind = template.kind /\ sc.resources[i].name = template.name

\* the mapper function fn returned without a failure of its client
Mapped(fn) == mapping.fn = fn /\ ~mapping.logged

\* C15: when no client call fails, TemplateToWorkloadRequests returns a request
\* for a Workload iff some ClusterSupplyChain has a resource whose templateRef
\* kind and name equal the template's and that chain is a best label match of
\* the Workload
C15_TemplateToWorkloadsIff ==
    Mapped("TemplateToWorkloadRequests") =>
        \A wl \in Items(cluster.workloads) :
            BagIn(Request(wl), mapping.requests)
                <=> \E sc \in Items(cluster.supplyChains) :
                        RefersToTemplate(sc, mapping.object) /\ IsBestLabelMatch(sc, wl)

\* a chain refers to a template of the same name and another kind, is the best
\* match of a Workload, and the Workload is not requested
C15_Witness ==
    /\ Mapped("TemplateToWorkloadRequests")
    /\ \E wl \in Items(cluster.workloads), sc \in Items(cluster.supplyChains) :
          /\ IsBestLabelMatch(sc, wl)
          /\ \E i \in DOMAIN sc.resources :
                /\ sc.resources[i].name = mapping.object.name
                /\ sc.resources[i].kind # mapping.object.kind
          /\ ~BagIn(Request(wl), mapping.requests)
    /\ \E wl \in Items(cluster.workloads) : BagIn(Request(wl), mapping.requests)

\* C16 as stated: every Workload ClusterSupplyChainToWorkloadRequests returns
\* matches the selector of the changed chain and has that chain as its single
\* best match: no other chain matches it with as many pairs
C16_Original ==
    mapping.fn = "ClusterSupplyChainToWorkloadRequests" =>
        \A wl \in Items(cluster.workloads) :
            BagIn(Request(wl), mapping.requests) =>
                /\ mapping.object.selector \subseteq wl.labels
                /\ \A other \in Items(cluster.supplyChains) :
                      (other # mapping.object /\ other.selector \subseteq wl.labels)
                          => Cardinality(other.selector) < Cardinality(mapping.object.selector)

\* C16: every Workload ClusterSupplyChainToWorkloadRequests returns matches the
\* selector of the changed chain, and no other chain matches it with more pairs
\* (a chain that matches with as many pairs does not prevent the request)
C16_ChangedChainIsABestMatch ==
    mapping.fn = "ClusterSupplyChainToWorkloadRequests" =>
        \A wl \in Items(cluster.workloads) :
            BagIn(Request(wl), mapping.requests) =>
                /\ mapping.object.selector \subseteq wl.labels
                /\ \A other \in Items(cluster.supplyChains) :
                      other.selector \subseteq wl.labels
                          => Cardinality(other.selector) <= Cardinality(mapping.object.selector)

\* the changed chain matches a Workload that the other chain matches better, and
\* requests another Workload
C16_Witness ==
    /\ Mapped("ClusterSupplyChainToWorkloadRequests")
    /\ mapping.object.kind = "ClusterSupplyChain"
    /\ \E wl \in Items(cluster.workloads) :
          /\ mapping.object.selector \subseteq wl.labels
          /\ ~IsBestLabelMatch(mapping.object, wl)
          /\ ~BagIn(Request(wl), mapping.requests)
    /\ \E wl \in Items(cluster.workloads) : BagIn(Request(wl), mapping.requests)

\* the namespace in which the service account a chain refers to is looked up
\* for a Workload
LookupNamespace(sc, wl) ==
    IF sc.serviceAccountRef.namespace = "" THEN wl.namespace
    ELSE sc.serviceAccountRef.namespace

\* (a) of C17: the Workload names the service account
NamesServiceAccount(wl, sa) ==
    wl.namespace = sa.namespace /\ wl.serviceAccountName = sa.name

\* (b) of C17: the Workload names no service account and a best-matching
\* chain refers to the service account
ChainRefersToServiceAccount(wl, sa) ==
    /\ wl.serviceAccountName = ""
    /\ \E sc \in Items(cluster.supplyChains) :
          /\ IsBestLabelMatch(sc, wl)
          /\ sc.serviceAccountRef.name = sa.name
          /\ LookupNamespace(sc, wl) = sa.namespace

\* C17: when no client call fails, ServiceAccountToWorkloadRequests for S
\* returns exactly the Workloads of S's namespace that name S and the Workloads
\* without a service account name whose best-matching chain refers to S in the
\* lookup namespace; a Workload that names another service account is not
\* returned
C17_ServiceAccountToWorkloadsExactly ==
    Mapped("ServiceAccountToWorkloadRequests") =>
        \A wl \in Items(cluster.workloads) :
            /\ BagIn(Request(wl), mapping.requests)
                  <=> (NamesServiceAccount(wl, mapping.object)
                          \/ ChainRefersToServiceAccount(wl, mapping.object))
            /\ wl.serviceAccountName \notin {"", mapping.object.name}
                  => ~BagIn(Request(wl), mapping.requests)

\* one Workload is returned through the serviceAccountRef of its chain, the
\* other is matched by a chain that refers to S in another namespace than S's
\* and is not returned
C17_Witness ==
    /\ Mapped("ServiceAccountToWorkloadRequests")
    /\ \E wl \in Items(cluster.workloads) :
          /\ ChainRefersToServiceAccount(wl, mapping.object)
          /\ BagIn(Request(wl), mapping.requests)
    /\ \E wl \in Items(cluster.workloads), sc \in Items(cluster.supplyChains) :
          /\ wl.serviceAccountName = ""
          /\ IsBestLabelMatch(sc, wl)
          /\ sc.serviceAccountRef.name = mapping.object.name
          /\ LookupNamespace(sc, wl) # mapping.object.namespace
          /\ ~BagIn(Request(wl), mapping.requests)

\* C14: a mapper function in which a client call, a GVK lookup or a type cast
\* failed returns the empty list
C14_FailureGivesEmptyList ==
    mapping.logged => mapping.requests = EmptyBag

\* the requests of the bag
RequestSet(r) == BagToSet(r.requests)

\* the mapper function fn returned and none of its call sites failed
MappedUndisturbed(fn) == mapping.fn = fn /\ mapping.fail = {}

\* C18: when no call fails, RoleToWorkloadRequests returns the requests of
\* every RoleBinding of the Role's namespace whose roleRef has kind Role and the
\* name of the Role, whatever the apiGroup of the roleRef
C18_EveryBindingOfTheRole ==
    MappedUndisturbed("RoleToWorkloadRequests") =>
        \A rb \in Items(cluster.roleBindings) :
            (/\ rb.namespace = mapping.object.namespace
             /\ rb.roleRef.kind = "Role"
             /\ rb.roleRef.name = mapping.object.name)
                => RequestSet(RoleBindingToWorkloadRequests(mapping.fail, rb))
                       \subseteq BagToSet(mapping.requests)

\* C19: when no call fails, the result of RoleBindingToWorkloadRequests and of
\* ClusterRoleBindingToWorkloadRequests contains, for every ServiceAccount
\* subject of the binding, the requests of ServiceAccountToWorkloadRequests for
\* that service account, and is empty for a binding without such a subject
C19_EveryServiceAccountSubject ==
    (/\ mapping.fn \in {"RoleBindingToWorkloadRequests",
                        "ClusterRoleBindingToWorkloadRequests"}
     /\ mapping.fail = {}
     /\ ~mapping.logged) =>
        LET subjects == SelectSeq(mapping.object.subjects, IsServiceAccountSubject)
        IN /\ \A i \in DOMAIN subjects :
                 RequestSet(ServiceAccountToWorkloadRequests(mapping.fail,
                                GetServiceAccount(FALSE, subjects[i])))
                     \subseteq BagToSet(mapping.requests)
           /\ subjects = <<>> => mapping.requests = EmptyBag

\* C20: when no call fails, no request occurs twice in the list an RBAC mapper
\* returns
C20_NoDuplicateRequest ==
    (/\ mapping.fn \in {"RoleBindingToWorkloadRequests",
                        "ClusterRoleBindingToWorkloadRequests",
                        "RoleToWorkloadRequests", "ClusterRoleToWorkloadRequests"}
     /\ mapping.fail = {}) =>
        \A r \in BagToSet(mapping.requests) : CopiesIn(r, mapping.requests) = 1

\* C21: when the List succeeds, RunTemplateToRunnableRequests for a changed
\* ClusterRunTemplate returns a request for a Runnable, of any namespace, iff
\* the name of its runTemplateRef is the template's and the kind of the
\* runTemplateRef is ClusterRunTemplate or empty
C21_RunTemplateToRunnablesIff ==
    (Mapped("RunTemplateToRunnableRequests") /\ mapping.object.kind = "ClusterRunTemplate") =>
        \A r \in Items(cluster.runnables) :
            BagIn(Request(r), mapping.requests)
                <=> (/\ r.runTemplateRef.name = mapping.object.name
                     /\ r.runTemplateRef.kind \in {"ClusterRunTemplate", ""})

\* a Runnable whose runTemplateRef has no kind is requested, a Runnable of
\* another namespace too, and a Runnable that refers to a template of the
\* same name and another kind is not
C21_Witness ==
    /\ Mapped("RunTemplateToRunnableRequests")
    /\ mapping.object.kind = "ClusterRunTemplate"
    /\ \E r1 \in Items(cluster.runnables), r2 \in Items(cluster.runnables) :
          /\ r1.runTemplateRef.kind = ""
          /\ BagIn(Request(r1), mapping.requests)
          /\ r2.runTemplateRef.name = mapping.object.name
          /\ r2.runTemplateRef.kind = "ClusterTemplate"
          /\ ~BagIn(Request(r2), mapping.requests)

\* the mapper functions that lead from the RBAC kinds to Runnables
RbacToRunnableFunctions ==
    {"RoleBindingToRunnableRequests", "ClusterRoleBindingToRunnableRequests",
     "RoleToRunnableRequests", "ClusterRoleToRunnableRequests"}

\* the ServiceAccount subjects of the bindings of the cluster
BoundServiceAccounts ==
    {sub \in UNION {Items(b.subjects) :
                        b \in Items(cluster.roleBindings) \cup Items(cluster.clusterRoleBindings)} :
        sub.kind = "ServiceAccount"}

\* C26: when the List succeeds, ServiceAccountToRunnableRequests for S returns
\* exactly the Runnables of S's namespace whose serviceAccountName is S's name;
\* every request the binding and role mappers return is for a Runnable that
\* names a ServiceAccount subject of a binding, in the namespace of that subject
C26_ServiceAccountToRunnablesExactly ==
    /\ Mapped("ServiceAccountToRunnableRequests") =>
          \A r \in Items(cluster.runnables) :
              BagIn(Request(r), mapping.requests)
                  <=> (/\ r.namespace = mapping.object.namespace
                       /\ r.serviceAccountName = mapping.object.name)
    /\ mapping.fn \in RbacToRunnableFunctions =>
          \A r \in Items(cluster.runnables) :
              BagIn(Request(r), mapping.requests)
                  => \E sub \in BoundServiceAccounts :
                        /\ r.namespace = sub.namespace
                        /\ r.serviceAccountName = sub.name

\* a Runnable of S's namespace is requested and a Runnable that names S in
\* another namespace is not
C26_Witness ==
    /\ Mapped("ServiceAccountToRunnableRequests")
    /\ \E r1 \in Items(cluster.runnables), r2 \in Items(cluster.runnables) :
          /\ BagIn(Request(r1), mapping.requests)
          /\ r2.serviceAccountName = mapping.object.name
          /\ r2.namespace # mapping.object.namespace
          /\ ~BagIn(Request(r2), mapping.requests)

\* the name of the service account Reconcile looks up for a Runnable
\* (part_002 lines 72-75)
ReconciledServiceAccountName(r) ==
    IF r.serviceAccountName # "" THEN r.serviceAccountName ELSE "default"

\* C27: when no call fails, ServiceAccountToRunnableRequests for the service
\* account that Reconcile looks up for a Runnable returns a request for that
\* Runnable
C27_ReconciledServiceAccountIsMapped ==
    MappedUndisturbed("ServiceAccountToRunnableRequests") =>
        \A r \in Items(cluster.runnables) :
            (/\ r.namespace = mapping.object.namespace
             /\ ReconciledServiceAccountName(r) = mapping.object.name)
                => BagIn(Request(r), mapping.requests)

\* the text of the message has the part
Contains(message, part) == \E i \in 1..Len(message) : message[i] = part

\* C22: the JsonPathExpression of a RetrieveOutputError is the expression of
\* the error it wraps when that error has a JSONPath context (the imagePath
\* when it is the error of an image template's GetOutput), its message
\* contains that expression, and the placeholder is used only when the wrapped
\* error has no JSONPath context
C22_RetrieveOutputErrorCarriesExpression ==
    templating.step = "failed" =>
        LET e == templating.retrieveErr
        IN /\ ImplementsJsonPathErrorContext(e.Err)
                => JsonPathExpression(e) = e.Err.expression
           /\ e.Err = templating.err
                => JsonPathExpression(e) = templating.template.imagePath
           /\ Contains(ErrorMessage(e), JsonPathExpression(e))
           /\ JsonPathExpression(e) = NoJsonPathContext
                <=> ~ImplementsJsonPathErrorContext(e.Err)

\* the error of GetOutput was wrapped and the message names the imagePath
C22_Witness ==
    /\ templating.step = "failed"
    /\ templating.retrieveErr.Err = templating.err
    /\ JsonPathExpression(templating.retrieveErr) = templating.template.imagePath
    /\ ErrorMessage(templating.retrieveErr)[2] = templating.template.imagePath

\* C25: GetOutput of an image template returns an Output with the Image
\* found at the imagePath of the stamped object's content and nothing else,
\* and, when there is no value at the path, no Output and a JSONPath error
\* with the imagePath as expression
C25_GetOutputIsImageAtPath ==
    templating.step \in {"output", "failed", "retrieved"} =>
        LET value == templating.stampedObject.content[templating.template.imagePath]
        IN IF value # Absent
           THEN /\ templating.output = Output(Absent, value, Absent)
                /\ templating.err = NilError
           ELSE /\ templating.output = NilOutput
                /\ ImplementsJsonPathErrorContext(templating.err)
                /\ templating.err.expression = templating.template.imagePath

\* the Image was found at the imagePath while another path holds another value
C25_Witness ==
    /\ templating.step = "retrieved"
    /\ templating.output.Image \in Images
    /\ \E p \in JsonPaths :
          templating.stampedObject.content[p] \notin {Absent, templating.output.Image}

\* the reconcile of k returned after GetRunnable failed
ReturnedAfterGetRunnableFailed(k) ==
    pc[k] = "done" /\ result[k].kind = "GetRunnableError"

\* the reconcile of k returned after the client builder failed
ReturnedAfterClientBuilderFailed(k) ==
    pc[k] = "done" /\ err[k].kind = "ClientBuilderError"

\* C23 as stated: after a failure to get the Runnable, to get the service
\* account secret or to build the client, the reconcile has finalized the
\* conditions when it returns
C23_Original ==
    \A k \in RunnableKeys :
        (\/ ReturnedAfterGetRunnableFailed(k)
         \/ ReturnedAfterSecretNotFound(k)
         \/ ReturnedAfterClientBuilderFailed(k))
        => Called(k, "Finalize")

\* C23 amended: after a failure to get the service account secret or to build
\* the client the conditions are finalized with the condition of that failure
\* before Reconcile returns; after a failure to get the Runnable Reconcile
\* returns the error without finalizing and without any other call
C23_LoadingErrorIsFinalized ==
    \A k \in RunnableKeys :
        /\ ReturnedAfterSecretNotFound(k)
            => /\ Called(k, "Finalize")
               /\ Recorded(k, ServiceAccountSecretNotFoundCondition)
        /\ ReturnedAfterClientBuilderFailed(k)
            => /\ Called(k, "Finalize")
               /\ Recorded(k, ClientBuilderErrorCondition)
        /\ ReturnedAfterGetRunnableFailed(k)
            => /\ calls[k] = <<"GetRunnable">>
               /\ result[k] # NoError

C23_Witness ==
    \E k \in RunnableKeys :
        /\ ReturnedAfterClientBuilderFailed(k)
        /\ Recorded(k, ClientBuilderErrorCondition)
        /\ Called(k, "StatusUpdate")

\* call a was made before call b in the reconcile of k
CalledBefore(k, a, b) ==
    \E i \in DOMAIN calls[k], j \in DOMAIN calls[k] :
        i < j /\ calls[k][i] = a /\ calls[k][j] = b

\* the reconcile of k returned nil after a RetrieveOutputError or a Forbidden
\* apply error
ReturnedNilAfterHandledError(k) ==
    /\ pc[k] = "done"
    /\ result[k] = NoError
    /\ \/ realizeErr[k].kind = "RetrieveOutputError"
       \/ realizeErr[k].kind = "ApplyStampedObjectError" /\ IsForbidden(realizeErr[k])

\* C28: when a reconcile returns nil after a RetrieveOutputError or a
\* Forbidden apply error, Watch was called before the conditions were
\* finalized if the realizer returned a stamped object, and was not called at
\* all if it returned none
C28_WatchBeforeFinalize ==
    \A k \in RunnableKeys :
        ReturnedNilAfterHandledError(k)
        => IF stampedObject[k] # NilObject
           THEN CalledBefore(k, "Watch", "Finalize")
           ELSE ~Called(k, "Watch")

\* a RetrieveOutputError with a stamped object: the object is watched
C28_Witness ==
    \E k \in RunnableKeys :
        /\ ReturnedNilAfterHandledError(k)
        /\ realizeErr[k].kind = "RetrieveOutputError"
        /\ stampedObject[k] # NilObject
        /\ CalledBefore(k, "Watch", "Finalize")

\* the condition the reconcile of k chose from the outcome of Realize
RealizeOutcomeCondition(k) ==
    IF realizeErr[k] = NoError THEN RunTemplateReadyCondition
    ELSE RealizeErrorCondition(realizeErr[k])

\* C30: when Watch fails Reconcile returns an error, the unhandled tracking
\* error unless the status update failed as well, whether Realize succeeded
\* or failed, and the only RunTemplateReady condition finalized is the one
\* chosen from the outcome of Realize
C30_WatchFailureOverrides ==
    \A k \in RunnableKeys :
        (pc[k] = "done" /\ WatchFailed(k))
        => /\ result[k] # NoError
           /\ ~StatusUpdateFailed(k)
                => /\ result[k] = NewUnhandledError(PlainError("TrackingError"))
                   /\ IsUnhandledError(result[k])
           /\ OfType(runnable[k].conditions, "RunTemplateReady")
                = <<RealizeOutcomeCondition(k)>>

\* Watch failed after a handled Realize error: the error returned is the
\* tracking error, the condition that of the Realize error
C30_Witness ==
    \E k \in RunnableKeys :
        /\ pc[k] = "done"
        /\ WatchFailed(k)
        /\ realizeErr[k].kind = "StampError"
        /\ result[k] = NewUnhandledError(PlainError("TrackingError"))
        /\ Recorded(k, TemplateStampFailureCondition)

\* the reconcile of k returned from completeReconciliation, StatusUpdate did
\* not fail and the Runnable still exists
Completed(k) ==
    /\ pc[k] = "done"
    /\ Called(k, "Finalize")
    /\ ~StatusUpdateFailed(k)
    /\ api[k].exists

\* the reconcile of k failed before the realizer ran
FailedBeforeRealize(k) ==
    err[k].kind \in {"ServiceAccountSecretError", "ClientBuilderError"}

\* C29 as stated: after a reconcile that completed without a StatusUpdate
\* failure the persisted outputs are the outputs of that reconcile (nil when
\* it failed before the realizer ran) and the persisted observedGeneration
\* is the generation of the Runnable the reconcile read
C29_Original ==
    \A k \in RunnableKeys :
        Completed(k)
        => /\ api[k].outputs = outputs[k]
           /\ api[k].observedGeneration = runnable[k].generation
           /\ FailedBeforeRealize(k) => api[k].outputs = NilOutputs

\* C29 amended: after a reconcile whose StatusUpdate succeeded the persisted
\* outputs are the outputs of that reconcile (nil when it failed before the
\* realizer ran) and the persisted observedGeneration is the generation of
\* the Runnable the reconcile read; a reconcile that made no StatusUpdate read
\* a Runnable whose status had these outputs and that generation already
C29_StatusUpdateWritesOutputs ==
    \A k \in RunnableKeys :
        Completed(k)
        => /\ FailedBeforeRealize(k) => outputs[k] = NilOutputs
           /\ IF Called(k, "StatusUpdate")
              THEN /\ api[k].outputs = outputs[k]
                   /\ api[k].observedGeneration = runnable[k].generation
              ELSE /\ runnable[k].outputs = outputs[k]
                   /\ runnable[k].observedGeneration = runnable[k].generation

\* the secret was not found and the outputs an earlier reconcile recorded,
\* which the cache still shows, were replaced by nil
C29_Witness ==
    \E k \in RunnableKeys :
        /\ Completed(k)
        /\ ReturnedAfterSecretNotFound(k)
        /\ Called(k, "StatusUpdate")
        /\ cache[k].outputs = "o1"
        /\ api[k].outputs = NilOutputs

\* the reconcile of k that is about to complete was given what the reconcile
\* of k before it was given: the same generation, the same results of the
\* secret lookup, the client builder, Realize and Watch, and a condition
\* manager that finalizes the same conditions
SameAsLastReconcile(k) ==
    LET l == lastReconcile[k]
    IN /\ l.valid
       /\ pc[k] = "completeReconciliation"
       /\ runnable[k].generation = l.generation
       /\ stampedObject[k] = l.stampedObject
       /\ outputs[k] = l.outputs
       /\ realizeErr[k] = l.realizeErr
       /\ err[k] = l.err
       /\ FinalizeConditions(managers[conditionManager]) = l.conditions

\* the step that completes the reconcile of k calls no StatusUpdate and
\* returns what the reconcile before it returned
QuietStep(k) ==
    /\ \A i \in DOMAIN calls'[k] : calls'[k][i] # "StatusUpdate"
    /\ result'[k] = lastReconcile[k].result

StatusNotPersisted(k) ==
    \/ api[k].conditions # runnable[k].conditions
    \/ api[k].outputs # runnable[k].outputs
    \/ api[k].observedGeneration # runnable[k].observedGeneration

\* C31: when StatusUpdate fails Reconcile returns the error that wraps the
\* status update failure, not nil and not the error of the realize step,
\* whether that error was nil, handled or unhandled: a reconcile that called
\* StatusUpdate and whose status is not persisted returns that error
C31_StatusUpdateFailureIsReturned ==
    \A k \in RunnableKeys :
        /\ (pc[k] = "done" /\ Called(k, "StatusUpdate") /\ api[k].exists
               /\ StatusNotPersisted(k))
            => result[k] = PlainError("StatusUpdateError")
        /\ (pc[k] = "done" /\ StatusUpdateFailed(k))
            => /\ Called(k, "StatusUpdate")
               /\ result[k] # NoError
               /\ result[k] # err[k]
               /\ result[k] # realizeErr[k]

\* StatusUpdate failed after Realize failed with an unhandled error
C31_Witness ==
    \E k \in RunnableKeys :
        /\ pc[k] = "done"
        /\ StatusUpdateFailed(k)
        /\ api[k].exists
        /\ StatusNotPersisted(k)
        /\ realizeErr[k].kind = "GetRunTemplateError"
        /\ IsUnhandledError(err[k])

\* the reconcile of k returned without a Runnable
ReturnedWithoutRunnable(k) == pc[k] = "done" /\ runnable[k] = NoRunnable

\* C32: a reconcile that finds no Runnable returns nil, one whose GetRunnable
\* fails returns that error, and neither makes any other call: no secret
\* lookup, no Realize, no Watch, no Finalize and no StatusUpdate; a reconcile
\* that makes another call has read a Runnable that existed
C32_NoRunnableNoEffect ==
    \A k \in RunnableKeys :
        /\ ReturnedWithoutRunnable(k)
            => /\ calls[k] = <<"GetRunnable">>
               /\ result[k] \in {NoError, PlainError("GetRunnableError")}
               /\ result[k] = NoError => ~cache[k].exists
        /\ Len(calls[k]) > 1 => runnable[k].exists
        /\ ReturnedAfterGetRunnableFailed(k) => ReturnedWithoutRunnable(k)

\* the Runnable was deleted and Reconcile returned nil
C32_Witness ==
    \E k \in RunnableKeys :
        /\ ReturnedWithoutRunnable(k)
        /\ ~cache[k].exists
        /\ result[k] = NoError
        /\ calls[k] = <<"GetRunnable">>

\* the condition of the first failure of the reconcile of k, the ready
\* condition when Realize succeeded
ExpectedCondition(k) ==
    CASE err[k].kind = "ServiceAccountSecretError" -> ServiceAccountSecretNotFoundCondition
      [] err[k].kind = "ClientBuilderError" -> ClientBuilderErrorCondition
      [] OTHER -> RealizeOutcomeCondition(k)

\* the number of calls of that name in the reconcile of k
NumberOfCalls(k, name) == Cardinality({i \in DOMAIN calls[k] : calls[k][i] = name})

\* C33: a reconcile that loaded the Runnable has, when it returns, added one
\* condition to its condition manager, the ready condition when Realize
\* succeeded and the condition of the first failure otherwise, and called
\* Finalize once, after the call that decided the condition and before
\* StatusUpdate; until then the manager never holds more than one condition
C33_OneConditionOneFinalize ==
    \A k \in RunnableKeys :
        /\ (pc[k] \notin {"idle", "done"})
            => Len(managers[conditionManager].conditions) <= 1
        /\ (pc[k] = "done" /\ runnable[k] # NoRunnable)
            => /\ managers[conditionManager].conditions = <<ExpectedCondition(k)>>
               /\ NumberOfCalls(k, "Finalize") = 1
               /\ \/ CalledBefore(k, "Realize", "Finalize")
                  \/ (~Called(k, "Realize") /\ CalledBefore(k, "ClientBuilder", "Finalize"))
                  \/ (~Called(k, "ClientBuilder")
                         /\ CalledBefore(k, "GetServiceAccountSecret", "Finalize"))
               /\ ~CalledBefore(k, "StatusUpdate", "Finalize")
               /\ Called(k, "StatusUpdate") => CalledBefore(k, "Finalize", "StatusUpdate")

\* Realize succeeded, Watch failed: the one condition is the ready condition
\* and the status was written after Finalize
C33_Witness ==
    \E k \in RunnableKeys :
        /\ pc[k] = "done"
        /\ runnable[k] # NoRunnable
        /\ realizeErr[k] = NoError
        /\ WatchFailed(k)
        /\ managers[conditionManager].conditions = <<RunTemplateReadyCondition>>
        /\ CalledBefore(k, "Finalize", "StatusUpdate")

\* C34: when the client builder fails neither Realize nor Watch is called,
\* the ClientBuilderError condition is recorded and Reconcile returns an
\* error, the unhandled client builder error unless the status update failed
C34_ClientBuilderFailureIsUnhandled ==
    \A k \in RunnableKeys :
        ReturnedAfterClientBuilderFailed(k)
        => /\ ~Called(k, "Realize")
           /\ ~Called(k, "Watch")
           /\ Recorded(k, ClientBuilderErrorCondition)
           /\ result[k] # NoError
           /\ ~StatusUpdateFailed(k)
                => /\ IsUnhandledError(result[k])
                   /\ result[k] = NewUnhandledError(PlainError("ClientBuilderError"))

\* the client builder failed without a status write being needed or failing
C34_Witness ==
    \E k \in RunnableKeys :
        /\ ReturnedAfterClientBuilderFailed(k)
        /\ ~StatusUpdateFailed(k)
        /\ IsUnhandledError(result[k])
        /\ calls[k][Len(calls[k])] \in {"Finalize", "StatusUpdate"}
        /\ ~Called(k, "Realize")

\* the call site of the Workload mappers at the place of a call site of the
\* Deliverable mappers
WorkloadCallSite(site) ==
    CASE site = "clusterDeliveryToDeliverables.addGVK"
            -> "clusterSupplyChainToWorkloads.addGVK"
      [] site = "clusterDeliveryToDeliverables.ListDeliveries"
            -> "clusterSupplyChainToWorkloads.ListSupplyChains"
      [] site = "clusterDeliveryToDeliverables.ListDeliverables"
            -> "clusterSupplyChainToWorkloads.ListWorkloads"
      [] site = "templateToDeliveries.addGVK" -> "templateToSupplyChains.addGVK"
      [] site = "templateToDeliveries.List" -> "templateToSupplyChains.List"
      [] site = "ServiceAccountToDeliverableRequests.List"
            -> "ServiceAccountToWorkloadRequests.List"
      [] site = "serviceAccountToDeliveries.List" -> "serviceAccountToSupplyChains.List"
      [] site = "RoleBindingToDeliverableRequests.Get"
            -> "RoleBindingToWorkloadRequests.Get"
      [] site = "ClusterRoleBindingToDeliverableRequests.Get"
            -> "ClusterRoleBindingToWorkloadRequests.Get"
      [] site = "RoleToDeliverableRequests.List" -> "RoleToWorkloadRequests.List"
      [] site = "ClusterRoleToDeliverableRequests.ListClusterRoleBindings"
            -> "ClusterRoleToWorkloadRequests.ListClusterRoleBindings"
      [] site = "ClusterRoleToDeliverableRequests.ListRoleBindings"
            -> "ClusterRoleToWorkloadRequests.ListRoleBindings"

\* the object of the Workload side that corresponds to a changed object
CorrespondingObject(o) ==
    IF o.kind = "ClusterDelivery"
    THEN ClusterSupplyChain(o.name, o.selector, o.resources, o.serviceAccountRef)
    ELSE o

\* the result of the Workload mapper that corresponds to the Deliverable mapper
\* fn, called with the call sites f failing
WorkloadCounterpart(fn, f, o) ==
    CASE fn = "TemplateToDeliverableRequests" -> TemplateToWorkloadRequests(f, o)
      [] fn = "ClusterDeliveryToDeliverableRequests"
            -> ClusterSupplyChainToWorkloadRequests(f, o)
      [] fn = "ServiceAccountToDeliverableRequests"
            -> ServiceAccountToWorkloadRequests(f, o)
      [] fn = "RoleBindingToDeliverableRequests" -> RoleBindingToWorkloadRequests(f, o)
      [] fn = "ClusterRoleBindingToDeliverableRequests"
            -> ClusterRoleBindingToWorkloadRequests(f, o)
      [] fn = "RoleToDeliverableRequests" -> RoleToWorkloadRequests(f, o)
      [] fn = "ClusterRoleToDeliverableRequests" -> ClusterRoleToWorkloadRequests(f, o)

DeliverableFunctions ==
    {"TemplateToDeliverableRequests", "ClusterDeliveryToDeliverableRequests",
     "ServiceAccountToDeliverableRequests", "RoleBindingToDeliverableRequests",
     "ClusterRoleBindingToDeliverableRequests", "RoleToDeliverableRequests",
     "ClusterRoleToDeliverableRequests"}

\* the cluster holds, for every Workload and ClusterSupplyChain, the Deliverable
\* and the ClusterDelivery with the same fields, and no other
CorrespondingCluster ==
    /\ cluster.deliverables
          = [i \in DOMAIN cluster.workloads |-> DeliverableOf(cluster.workloads[i])]
    /\ cluster.deliveries
          = [i \in DOMAIN cluster.supplyChains |-> DeliveryOf(cluster.supplyChains[i])]

\* C35: on corresponding cluster states and with the corresponding client calls
\* failing, every Deliverable mapper returns the set of requests its Workload
\* counterpart returns, error paths included
C35_DeliverableMappersMirrorWorkloadMappers ==
    (mapping.fn \in DeliverableFunctions /\ CorrespondingCluster) =>
        BagToSet(mapping.requests)
            = RequestSet(WorkloadCounterpart(mapping.fn,
                             {WorkloadCallSite(site) : site \in mapping.fail},
                             CorrespondingObject(mapping.object)))

\* C36: when no call fails, TemplateToSupplyChainRequests and
\* TemplateToDeliveryRequests return only requests with an empty namespace, and
\* exactly one request for every blueprint with a resource whose templateRef has
\* the kind and the name of the template, none for any other blueprint
C36_OneRequestPerBlueprint ==
    /\ MappedUndisturbed("TemplateToSupplyChainRequests") =>
          /\ \A r \in BagToSet(mapping.requests) : r.namespace = ""
          /\ \A sc \in Items(cluster.supplyChains) :
                CopiesIn(ClusterScopedRequest(sc), mapping.requests)
                    = IF RefersToTemplate(sc, mapping.object) THEN 1 ELSE 0
    /\ MappedUndisturbed("TemplateToDeliveryRequests") =>
          /\ \A r \in BagToSet(mapping.requests) : r.namespace = ""
          /\ \A d \in Items(cluster.deliveries) :
                CopiesIn(ClusterScopedRequest(d), mapping.requests)
                    = IF RefersToTemplate(d, mapping.object) THEN 1 ELSE 0

\* the roleRef names the ClusterRole
NamesClusterRole(binding, clusterRole) ==
    binding.roleRef.kind = "ClusterRole" /\ binding.roleRef.name = clusterRole.name

\* C37: when no call fails, ClusterRoleToWorkloadRequests for a ClusterRole
\* returns the union of the requests of every ClusterRoleBinding whose roleRef
\* names the ClusterRole and of every RoleBinding, of any namespace, whose
\* roleRef has kind ClusterRole and that name; when one of its two List calls
\* fails it returns no request
C37_UnionOverBindingsOfTheClusterRole ==
    /\ (MappedUndisturbed("ClusterRoleToWorkloadRequests")
            /\ mapping.object.kind = "ClusterRole") =>
          BagToSet(mapping.requests)
              = UNION ({RequestSet(ClusterRoleBindingToWorkloadRequests({}, crb)) :
                           crb \in {b \in Items(cluster.clusterRoleBindings) :
                                       NamesClusterRole(b, mapping.object)}}
                       \cup {RequestSet(RoleBindingToWorkloadRequests({}, rb)) :
                                rb \in {b \in Items(cluster.roleBindings) :
                                           NamesClusterRole(b, mapping.object)}})
    /\ (/\ mapping.fn = "ClusterRoleToWorkloadRequests"
        /\ mapping.fail \cap {"ClusterRoleToWorkloadRequests.ListClusterRoleBindings",
                              "ClusterRoleToWorkloadRequests.ListRoleBindings"} # {}) =>
          mapping.requests = EmptyBag

\* C38: a GetOutput that returns gives what the evaluation of the imagePath on
\* the object last passed to SetStampedObject gives, and that object is not
\* nil; GetOutput panics, returning no Output, exactly when no object or nil
\* was passed last; SetInputs leaves the template and the stamped object of the
\* model as they were
C38_GetOutputUsesLastStampedObject ==
    /\ (templating.lastCall = "GetOutput" /\ templating.step # "panicked") =>
          /\ templating.passed # NilStampedObject
          /\ LET r == GetOutput(templating.template, templating.passed)
             IN templating.output = r.output /\ templating.err = r.err
    /\ (templating.lastCall = "GetOutput" /\ templating.passed = NilStampedObject) =>
          templating.step = "panicked"
    /\ templating.step = "panicked" =>
          /\ templating.lastCall = "GetOutput"
          /\ templating.output = NilOutput
    /\ templating.lastCall = "SetInputs" => ModelOf(templating) = templating.before

\* GetOutput returned an Output with an image after SetStampedObject was called
\* twice
C38_Witness ==
    /\ templating.step = "model"
    /\ templating.lastCall = "GetOutput"
    /\ templating.sets = 2
    /\ templating.output # NilOutput
    /\ templating.output.Image = "image1"

====
